---- MODULE Spec2Model ----
(***************************************************************************)
(* Model of the Suno playlist player's extraction server (server.js):      *)
(* the static tier (fetchSongInfo, fetchSongInfoBatch), the rendered tier  *)
(* (the /api/fetch-artists-stream handler), playlist enumeration           *)
(* (fetchPlaylistSongs) and profile enumeration (fetchUserPlaylists).      *)
(*                                                                         *)
(* Text is a sequence of one-character strings. A JavaScript promise that  *)
(* is awaited is one step of the model: the step draws the outcome of the  *)
(* awaited call (a value, or a rejection) and runs the code up to the next *)
(* await.                                                                  *)
(***************************************************************************)
EXTENDS Integers, Sequences, FiniteSets, TLC

VARIABLES
    op,        \* the request being served: "idle" before any request
    status,    \* HTTP status written by writeHead, 0 before
    body,      \* batch: the request body, "none" | "empty" | "badjson" | "nouuids" | "ok"
    uuids,     \* the identifiers of the request, in input order
    unit,      \* fetchSongInfoBatch: the state of each mapped async callback
    results,   \* fetchSongInfoBatch: the shared results object
    returned,  \* fetchSongInfoBatch: <<results>> once the function returned
    pc,        \* position of the Puppeteer operation being run
    browser,   \* "none" | "open" | "closed"
    launches,  \* puppeteer.launch calls that returned a browser
    page,      \* "none" | "open" | "closed": the page variable of the operation
    opened,    \* pages opened so far
    idx,       \* stream: position in uuids of the identifier being processed
    loc,       \* stream: the locals artist, style, description of the iteration
    events,    \* stream: what res.write has put on the response, in order
    ended,     \* stream: res.end() was called
    resThrows, \* whether res.write may raise (never, for a string chunk in Node)
    failed,    \* stream: positions whose processing threw (history)
    outcome,   \* how the operation ended: "none" | "returned" | "threw"
    shadow,    \* a second run of fetchSongInfoBatch on the same input
    xid,       \* the identifier whose fetch outcome may differ in the second run
    playlistUrl, \* playlist: the url parameter of the request
    dom,       \* playlist: the document the extraction script ran against
    songData,  \* playlist: << value >> once the extraction script returned
    arg,       \* the argument of a function called on its own
    ret,       \* the values the calls of that function returned, in order
    probe,     \* stream: how the readiness wait and the evaluate of the item went (history)
    openPages, \* pages open in the browser
    scroll,    \* the scroll script of fetchPlaylistSongs run on its own
    fetchLog,  \* per unit: the results of the fetch calls it made, in order (history)
    api,       \* user playlists: how the direct profile API attempt went (history)
    sess,      \* two requests in flight at once: the locals of each
    chrome     \* two requests in flight at once: the browsers and pages that exist

vars == << op, status, body, uuids, unit, results, returned, pc, browser,
           launches, page, opened, idx, loc, events, ended, resThrows, failed,
           outcome, shadow, xid, playlistUrl, dom, songData, arg, ret, probe,
           openPages, scroll, fetchLog, api, sess, chrome >>

(***************************************************************************)
(* Bounds of the model.                                                    *)
(***************************************************************************)
MaxBatch == 2
MaxStream == 3
MaxTokens == 2

(***************************************************************************)
(* Identifiers. Two of them differ by case only.                           *)
(***************************************************************************)
Ids == {"aa", "AA", "bb"}

toLowerCase(u) == IF u = "AA" THEN "aa" ELSE u

SeqsUpTo(S, n) == UNION {[1..k -> S] : k \in 0..n}

(***************************************************************************)
(* Text helpers.                                                           *)
(***************************************************************************)
IsWs(c) == c \in {" ", "\t", "\n"}

RECURSIVE TrimLeft(_)
TrimLeft(s) == IF s # << >> /\ IsWs(Head(s)) THEN TrimLeft(Tail(s)) ELSE s

RECURSIVE TrimRight(_)
TrimRight(s) ==
    IF s # << >> /\ IsWs(s[Len(s)]) THEN TrimRight(SubSeq(s, 1, Len(s) - 1)) ELSE s

trim(s) == TrimLeft(TrimRight(s))

\* str.replace(/lit/g, rep) for a literal pattern
RECURSIVE ReplaceLit(_, _, _)
ReplaceLit(s, pat, rep) ==
    IF Len(s) < Len(pat) THEN s
    ELSE IF SubSeq(s, 1, Len(pat)) = pat
         THEN rep \o ReplaceLit(SubSeq(s, Len(pat) + 1, Len(s)), pat, rep)
         ELSE << Head(s) >> \o ReplaceLit(Tail(s), pat, rep)

Digits == {"0", "1", "2", "3", "4", "5", "6", "7", "8", "9"}
HexDigits == Digits \cup {"a", "b", "c", "d", "e", "f", "A", "B", "C", "D", "E", "F"}

DigitVal(c) ==
    CASE c = "0" -> 0 [] c = "1" -> 1 [] c = "2" -> 2 [] c = "3" -> 3
      [] c = "4" -> 4 [] c = "5" -> 5 [] c = "6" -> 6 [] c = "7" -> 7
      [] c = "8" -> 8 [] c = "9" -> 9
      [] c \in {"a", "A"} -> 10 [] c \in {"b", "B"} -> 11
      [] c \in {"c", "C"} -> 12 [] c \in {"d", "D"} -> 13
      [] c \in {"e", "E"} -> 14 [] c \in {"f", "F"} -> 15

\* the number a run of digits denotes in the given base
RECURSIVE ParseNum(_, _, _)
ParseNum(ds, base, acc) ==
    IF ds = << >> THEN acc
    ELSE ParseNum(Tail(ds), base, acc * base + DigitVal(Head(ds)))

\* String.fromCharCode(n): the UTF-16 code unit n mod 2^16
fromCharCode(n) ==
    LET u == n % 65536 IN
    CASE u = 34 -> "\""
      [] u = 38 -> "&"
      [] u = 39 -> "'"
      [] u = 60 -> "<"
      [] u = 62 -> ">"
      [] u = 65 -> "A"
      [] OTHER -> "u" \o ToString(u)

\* the length of the longest run of characters of S at the start of s
RECURSIVE RunLen(_, _)
RunLen(s, S) == IF s # << >> /\ Head(s) \in S THEN 1 + RunLen(Tail(s), S) ELSE 0

\* str.replace(/<prefix>(<digits>+);/g, (_, d) => String.fromCharCode(<d in base>))
RECURSIVE ReplaceNum(_, _, _, _)
ReplaceNum(s, prefix, digs, base) ==
    IF Len(s) < Len(prefix) THEN s
    ELSE IF SubSeq(s, 1, Len(prefix)) = prefix
         THEN LET rest == SubSeq(s, Len(prefix) + 1, Len(s))
                  n    == RunLen(rest, digs)
              IN  IF n > 0 /\ Len(rest) > n /\ rest[n + 1] = ";"
                  THEN << fromCharCode(ParseNum(SubSeq(rest, 1, n), base, 0)) >>
                       \o ReplaceNum(SubSeq(rest, n + 2, Len(rest)), prefix, digs, base)
                  ELSE << Head(s) >> \o ReplaceNum(Tail(s), prefix, digs, base)
         ELSE << Head(s) >> \o ReplaceNum(Tail(s), prefix, digs, base)

decodeHtmlEntities(str) ==
    IF str = << >> THEN str
    ELSE
    LET s1  == ReplaceLit(str, << "&", "#", "x", "2", "7", ";" >>, << "'" >>)
        s2  == ReplaceLit(s1,  << "&", "#", "3", "9", ";" >>, << "'" >>)
        s3  == ReplaceLit(s2,  << "&", "a", "p", "o", "s", ";" >>, << "'" >>)
        s4  == ReplaceLit(s3,  << "&", "q", "u", "o", "t", ";" >>, << "\"" >>)
        s5  == ReplaceLit(s4,  << "&", "#", "x", "2", "2", ";" >>, << "\"" >>)
        s6  == ReplaceLit(s5,  << "&", "a", "m", "p", ";" >>, << "&" >>)
        s7  == ReplaceLit(s6,  << "&", "l", "t", ";" >>, << "<" >>)
        s8  == ReplaceLit(s7,  << "&", "g", "t", ";" >>, << ">" >>)
        s9  == ReplaceNum(s8,  << "&", "#" >>, Digits, 10)
        s10 == ReplaceNum(s9,  << "&", "#", "x" >>, HexDigits, 16)
    IN  s10

(***************************************************************************)
(* Character classes of the regular expressions.                           *)
(***************************************************************************)
LowerSeq == << "a", "b", "c", "d", "e", "f", "g", "h", "i", "j", "k", "l", "m",
               "n", "o", "p", "q", "r", "s", "t", "u", "v", "w", "x", "y", "z" >>
UpperSeq == << "A", "B", "C", "D", "E", "F", "G", "H", "I", "J", "K", "L", "M",
               "N", "O", "P", "Q", "R", "S", "T", "U", "V", "W", "X", "Y", "Z" >>
Lower == {LowerSeq[i] : i \in DOMAIN LowerSeq}
Upper == {UpperSeq[i] : i \in DOMAIN UpperSeq}
WordChars == Lower \cup Upper \cup Digits \cup {"_"}

LowerChar(c) ==
    IF c \in Upper THEN LowerSeq[CHOOSE i \in DOMAIN UpperSeq : UpperSeq[i] = c] ELSE c

LowerStr(s) == [i \in DOMAIN s |-> LowerChar(s[i])]

\* s.replace(/\s*\|\s*Suno$/i, '')
StripSunoSuffix(s) ==
    LET n == Len(s) IN
    IF n >= 5 /\ LowerStr(SubSeq(s, n - 3, n)) = << "s", "u", "n", "o" >>
    THEN LET a == TrimRight(SubSeq(s, 1, n - 4)) IN
         IF a # << >> /\ a[Len(a)] = "|"
         THEN TrimRight(SubSeq(a, 1, Len(a) - 1))
         ELSE s
    ELSE s

\* the capture of /by\s+@?(\w+)/i tried at the start of s, << >> when it fails there
ByAtStart(s) ==
    IF Len(s) >= 2 /\ LowerStr(SubSeq(s, 1, 2)) = << "b", "y" >>
    THEN LET r1 == SubSeq(s, 3, Len(s))
             w  == RunLen(r1, {" ", "\t", "\n"})
             r2 == SubSeq(r1, w + 1, Len(r1))
             r3 == IF r2 # << >> /\ Head(r2) = "@" THEN Tail(r2) ELSE r2
         IN  IF w = 0 THEN << >> ELSE SubSeq(r3, 1, RunLen(r3, WordChars))
    ELSE << >>

\* desc.match(/by\s+@?(\w+)/i): the capture of the leftmost match, << >> for null
RECURSIVE MatchBy(_)
MatchBy(s) ==
    IF s = << >> THEN << >>
    ELSE IF ByAtStart(s) # << >> THEN ByAtStart(s) ELSE MatchBy(Tail(s))

(***************************************************************************)
(* Records of the static tier.                                             *)
(*                                                                         *)
(* A fetched page is the record of what each html.match of fetchSongInfo   *)
(* captures in it; << >> stands for a failed match (every capture group of *)
(* the code is non-empty when it matches). nextData is the state of the    *)
(* __NEXT_DATA__ script: "absent", "unparseable", "noclip" or "clip".      *)
(***************************************************************************)
NullUrl == [kind |-> "null", v |-> ""]
OgUrl(u) == [kind |-> "og", v |-> u]
CdnUrl(uuid) == [kind |-> "cdn", v |-> uuid]

Page(nd, clipTitle, tags, prompt, ogTitle, ogImage, ogDesc, atHref, byAny, twitter) ==
    [nextData |-> nd, clipTitle |-> clipTitle, tags |-> tags, prompt |-> prompt,
     ogTitle |-> ogTitle, ogImage |-> ogImage, ogDesc |-> ogDesc, atHref |-> atHref,
     byAny |-> byAny, twitter |-> twitter]

T_Midnight == << "M", "i", "d", " ", "|", " ", "S", "u", "n", "o" >>
T_Amp == << "A", "&", "a", "m", "p", ";", "B" >>
T_Clip == << "R", "e", "a", "l" >>
D_By == << "A", " ", "s", "o", "n", "g", " ", "b", "y", " ", "@", "c", "o", "o", "l" >>
D_Plain == << "n", "i", "c", "e" >>
D_NoAt == << "s", "t", "a", "n", "d", " ", "b", "y", " ", "m", "e" >>
H_Link == << "l", "n", "k" >>
H_Any == << "a", "n", "y" >>
H_Tw == << "t", "w" >>
H_TwAmp == << "T", " ", "&", "a", "m", "p", ";", " ", "J" >>
S_Rock == << "r", "o", "c", "k" >>
S_Amp == << "R", "&", "a", "m", "p", ";", "B" >>
S_Prompt == << "p", "r", "o", "m", "p", "t" >>

Htmls ==
    { Page("clip", T_Clip, S_Rock, S_Prompt, T_Midnight, "img", D_By, H_Link, << >>, << >>),
      Page("absent", << >>, << >>, << >>, T_Amp, "", D_Plain, << >>, << >>, H_Tw),
      Page("unparseable", << >>, << >>, << >>, << >>, "", << >>, << >>, << >>, << >>) }

\* the pages fetchSongInfo is called on when it is checked on its own
ClipParts ==
    { << "absent", << >>, << >>, << >> >>,
      << "unparseable", << >>, << >>, << >> >>,
      << "noclip", << >>, << >>, << >> >> }
    \cup { << "clip", t, m[1], m[2] >> :
             t \in {<< >>, T_Clip},
             m \in { << << >>, << >> >>, << S_Rock, S_Prompt >>, << S_Amp, << >> >> } }

PageInputs ==
    { Page(c[1], c[2], c[3], c[4], t, i, d, h, b, w) :
        c \in ClipParts, t \in {<< >>, T_Midnight, T_Amp}, i \in {"", "img"},
        d \in {<< >>, D_By, D_Plain, D_NoAt}, h \in {<< >>, H_Link},
        b \in {<< >>, H_Any}, w \in {<< >>, H_Tw, H_TwAmp} }

\* the catch block of fetchSongInfo
SongInfoDefault(uuid) ==
    [title |-> << >>, artist |-> << >>, coverUrl |-> CdnUrl(uuid),
     style |-> << >>, description |-> << >>]

\* an artist chain that tries twitter:creator before the profile link
ParseSongInfo_TwitterFirst(html) ==
    LET hasClip == html.nextData = "clip"
        a1 == IF html.ogDesc # << >> THEN MatchBy(html.ogDesc) ELSE << >>
        a2 == IF a1 = << >> THEN html.twitter ELSE a1
        a3 == IF a2 = << >> THEN html.atHref ELSE a2
        a4 == IF a3 = << >> THEN html.byAny ELSE a3
    IN  [title |-> IF html.ogTitle # << >>
                   THEN decodeHtmlEntities(trim(StripSunoSuffix(html.ogTitle)))
                   ELSE << >>,
         artist |-> IF a4 = << >> THEN << "S", "u", "n", "o", " ", "A", "I" >> ELSE a4,
         coverUrl |-> IF html.ogImage # "" THEN OgUrl(html.ogImage) ELSE NullUrl,
         style |-> IF hasClip THEN html.tags ELSE << >>,
         description |-> IF hasClip THEN html.prompt ELSE << >>]

\* a fetchSongInfo whose JSON.parse is not inside a try of its own: the
\* error reaches the catch block of the function
ParseSongInfo_NoInnerCatch(html) ==
    LET hasClip == html.nextData = "clip"
        a1 == IF html.ogDesc # << >> THEN MatchBy(html.ogDesc) ELSE << >>
        a2 == IF a1 = << >> THEN html.atHref ELSE a1
        a3 == IF a2 = << >> THEN html.byAny ELSE a2
        a4 == IF a3 = << >> THEN html.twitter ELSE a3
    IN  IF html.nextData = "unparseable"
        THEN SongInfoDefault("")
        ELSE [title |-> IF html.ogTitle # << >>
                        THEN decodeHtmlEntities(trim(StripSunoSuffix(html.ogTitle)))
                        ELSE << >>,
              artist |-> IF a4 = << >> THEN << "S", "u", "n", "o", " ", "A", "I" >> ELSE a4,
              coverUrl |-> IF html.ogImage # "" THEN OgUrl(html.ogImage) ELSE NullUrl,
              style |-> IF hasClip THEN html.tags ELSE << >>,
              description |-> IF hasClip THEN html.prompt ELSE << >>]

\* fetchSongInfo from `const html = await response.text()` to its return
\* (uuid is used there for logging only)
ParseSongInfo(html) ==
    LET hasClip == html.nextData = "clip"
        songStyle == IF hasClip THEN html.tags ELSE << >>
        songDescription == IF hasClip THEN html.prompt ELSE << >>
        title == IF html.ogTitle # << >>
                 THEN decodeHtmlEntities(trim(StripSunoSuffix(html.ogTitle)))
                 ELSE << >>
        coverUrl == IF html.ogImage # "" THEN OgUrl(html.ogImage) ELSE NullUrl
        a1 == IF html.ogDesc # << >> THEN MatchBy(html.ogDesc) ELSE << >>
        a2 == IF a1 = << >> THEN html.atHref ELSE a1
        a3 == IF a2 = << >> THEN html.byAny ELSE a2
        a4 == IF a3 = << >> THEN html.twitter ELSE a3
        artist == IF a4 = << >> THEN << "S", "u", "n", "o", " ", "A", "I" >> ELSE a4
    IN  [title |-> title, artist |-> artist, coverUrl |-> coverUrl,
         style |-> songStyle, description |-> songDescription]

(***************************************************************************)
(* Outcomes of the static fetch of one identifier: fetch() rejects         *)
(* ("neterr", or "timeout" when AbortSignal.timeout fires), the response   *)
(* is not ok ("http"), response.text() rejects ("texterr"), or the body    *)
(* arrives ("ok").                                                         *)
(***************************************************************************)
FetchFailures == {"neterr", "timeout", "http", "texterr"}

Outcomes ==
    [kind : FetchFailures, html : {CHOOSE h \in Htmls : h.nextData = "unparseable"}]
    \cup [kind : {"ok"}, html : Htmls]

Resolved(v) == [settled |-> "resolved", value |-> v]
Rejected == [settled |-> "rejected", value |-> SongInfoDefault("")]

\* what fetchSongInfo returns for each page of the model
ParsedPages == [h \in Htmls |-> ParseSongInfo(h)]

\* a fetchSongInfo whose try has no catch
fetchSongInfo_NoCatch(uuid, out) ==
    IF out.kind = "ok" THEN Resolved(ParsedPages[out.html]) ELSE Rejected

\* the promise fetchSongInfo(uuid) settles to, given the outcome of its fetch
fetchSongInfo(uuid, out) ==
    IF out.kind = "ok"
    THEN Resolved(ParsedPages[out.html])
    ELSE Resolved(SongInfoDefault(uuid))

(***************************************************************************)
(* fetchSongInfoBatch and the /api/fetch-songs-batch handler.              *)
(*                                                                         *)
(* uuids.map starts every callback, each runs to its first await (the      *)
(* fetch inside fetchSongInfo); afterwards the callbacks resume in any     *)
(* order. A unit is "fetch" (awaiting fetch), "text" (awaiting             *)
(* response.text()), "settled" (fetchSongInfo has settled to info, the     *)
(* callback has not resumed yet) or "done".                                *)
(***************************************************************************)
NoInfo == Resolved(SongInfoDefault(""))
UnitAt(p, info) == [pc |-> p, info |-> info]

Range(f) == {f[i] : i \in DOMAIN f}
EmptyMap == [k \in {} |-> SongInfoDefault("")]

\* results[key] = value
Put(r, key, value) == [k \in DOMAIN r \cup {key} |-> IF k = key THEN value ELSE r[k]]

\* a fetchSongInfo that reads the body of a response that is not ok
AfterFetch_IgnoreStatus(uuid, r) ==
    IF r \in {"ok", "http"}
    THEN UnitAt("text", NoInfo)
    ELSE UnitAt("settled", fetchSongInfo(uuid, [kind |-> r, html |-> CHOOSE h \in Htmls : h.nextData = "unparseable"]))

\* the callback resumed after `await fetch(...)`: r is "neterr", "timeout", "http" or "ok"
AfterFetch(uuid, r) ==
    IF r = "ok"
    THEN UnitAt("text", NoInfo)
    ELSE UnitAt("settled", fetchSongInfo(uuid, [kind |-> r, html |-> CHOOSE h \in Htmls : h.nextData = "unparseable"]))

\* the callback resumed after `await response.text()`
AfterText(uuid, out) == UnitAt("settled", fetchSongInfo(uuid, out))

\* a batch whose failing item puts the fallback record on every entry written so far
StoreResult_FallbackForAll(r, uuid, info) ==
    IF info.settled = "resolved" /\ info.value # SongInfoDefault(uuid)
    THEN Put(r, uuid, info.value)
    ELSE [k \in DOMAIN r \cup {uuid} |-> SongInfoDefault(k)]

\* the body of the map callback after `await fetchSongInfo(uuid)`
StoreResult(r, uuid, info) ==
    IF info.settled = "resolved"
    THEN Put(r, uuid, info.value)
    ELSE Put(r, uuid, SongInfoDefault(uuid))

AllDone(u) == \A i \in DOMAIN u : u[i].pc = "done"

\* the request body: none at all (JSON.parse('') throws), not JSON (or JSON
\* null), JSON without a uuids array, or {uuids: us}
BatchRequest ==
    /\ op = "idle"
    /\ \E kind \in {"empty", "badjson", "nouuids", "ok"} :
         /\ body' = kind
         /\ IF kind = "ok"
            THEN \E us \in SeqsUpTo(Ids, MaxBatch) :
                   /\ uuids' = us
                   /\ unit' = [i \in DOMAIN us |-> UnitAt("fetch", NoInfo)]
                   /\ fetchLog' = [i \in DOMAIN us |-> << >>]
                   /\ status' = 0
            ELSE /\ status' = IF kind \in {"empty", "badjson"} THEN 500 ELSE 400
                 /\ UNCHANGED << uuids, unit, fetchLog >>
    /\ op' = "batch"
    /\ UNCHANGED << results, returned, pc, browser, launches, page, opened, idx,
                    loc, events, ended, resThrows, shadow, xid, failed, outcome,
                    playlistUrl, dom, songData, arg, ret,
                    probe, openPages, scroll,
                    api, sess, chrome >>

AwaitFetch(i) ==
    /\ op \in {"batch", "single"} /\ i \in DOMAIN unit /\ unit[i].pc = "fetch"
    /\ \E r \in {"neterr", "timeout", "http", "ok"} :
         /\ unit' = [unit EXCEPT ![i] = AfterFetch(uuids[i], r)]
         /\ fetchLog' = [fetchLog EXCEPT ![i] = Append(@, r)]
    /\ UNCHANGED << body, op, status, uuids, results, returned, pc, browser, launches,
                    page, opened, idx, loc, events, ended, resThrows, shadow, xid, failed, outcome,
                    playlistUrl, dom, songData, arg, ret,
                    probe, openPages, scroll,
                    api, sess, chrome >>

AwaitText(i) ==
    /\ op \in {"batch", "single"} /\ i \in DOMAIN unit /\ unit[i].pc = "text"
    /\ \E out \in {o \in Outcomes : o.kind \in {"texterr", "ok"}} :
         unit' = [unit EXCEPT ![i] = AfterText(uuids[i], out)]
    /\ UNCHANGED << body, op, status, uuids, results, returned, pc, browser, launches,
                    page, opened, idx, loc, events, ended, resThrows, shadow, xid, failed, outcome,
                    playlistUrl, dom, songData, arg, ret,
                    probe, openPages, scroll, fetchLog,
                    api, sess, chrome >>

BatchStore(i) ==
    /\ op = "batch" /\ i \in DOMAIN unit /\ unit[i].pc = "settled"
    /\ results' = StoreResult(results, uuids[i], unit[i].info)
    /\ unit' = [unit EXCEPT ![i].pc = "done"]
    /\ UNCHANGED << body, op, status, uuids, returned, pc, browser, launches, page,
                    opened, idx, loc, events, ended, resThrows, shadow, xid, failed, outcome,
                    playlistUrl, dom, songData, arg, ret,
                    probe, openPages, scroll, fetchLog,
                    api, sess, chrome >>

\* a batch that does not await Promise.all(fetchPromises)
BatchReturn_NoAwait ==
    /\ op = "batch" /\ status = 0 /\ returned = << >>
    /\ returned' = << results >>
    /\ UNCHANGED << body, op, status, uuids, unit, results, pc, browser, launches, page,
                    opened, idx, loc, events, ended, resThrows, shadow, xid, failed, outcome,
                    playlistUrl, dom, songData, arg, ret,
                    probe, openPages, scroll, fetchLog,
                    api, sess, chrome >>

\* `await Promise.all(fetchPromises); return results`
BatchReturn ==
    /\ op = "batch" /\ status = 0 /\ returned = << >>
    /\ AllDone(unit)
    /\ returned' = << results >>
    /\ UNCHANGED << body, op, status, uuids, unit, results, pc, browser, launches, page,
                    opened, idx, loc, events, ended, resThrows, shadow, xid, failed, outcome,
                    playlistUrl, dom, songData, arg, ret,
                    probe, openPages, scroll, fetchLog,
                    api, sess, chrome >>

\* res.writeHead(200, ...); res.end(JSON.stringify(results))
BatchRespond ==
    /\ op = "batch" /\ status = 0 /\ returned # << >>
    /\ status' = 200
    /\ UNCHANGED << body, op, uuids, unit, results, returned, pc, browser, launches,
                    page, opened, idx, loc, events, ended, resThrows, shadow, xid, failed, outcome,
                    playlistUrl, dom, songData, arg, ret,
                    probe, openPages, scroll, fetchLog,
                    api, sess, chrome >>

(***************************************************************************)
(* The /api/fetch-song-info handler: one fetchSongInfo call, awaited.      *)
(* The unit of the call is unit[1]; the record answered is its info.       *)
(***************************************************************************)
\* `url.searchParams.get('uuid')`: << >> when the parameter is absent or empty
SingleInputs == {<< >>} \cup {<< u >> : u \in Ids}

\* the handler up to `await fetchSongInfo(uuid)`
SingleRequest ==
    /\ op = "idle"
    /\ \E us \in SingleInputs :
         /\ uuids' = us
         /\ IF us = << >>
            THEN status' = 400 /\ UNCHANGED << unit, fetchLog >>   \* Missing uuid parameter
            ELSE /\ unit' = << UnitAt("fetch", NoInfo) >>
                 /\ fetchLog' = << << >> >>
                 /\ UNCHANGED status
    /\ op' = "single"
    /\ UNCHANGED << body, results, returned, pc, browser, launches, page, opened, idx,
                    loc, events, ended, resThrows, shadow, xid, failed, outcome,
                    playlistUrl, dom, songData, arg, ret,
                    probe, openPages, scroll,
                    api, sess, chrome >>

\* a handler that answers 500 when the record is the all-default one
SingleRespond_ErrorOnDefault ==
    /\ op = "single" /\ status = 0
    /\ unit # << >> /\ unit[1].pc = "settled"
    /\ status' = IF /\ unit[1].info.settled = "resolved"
                    /\ unit[1].info.value # SongInfoDefault(uuids[1])
                 THEN 200 ELSE 500
    /\ unit' = [unit EXCEPT ![1].pc = "done"]
    /\ UNCHANGED << body, op, uuids, results, returned, pc, browser, launches,
                    page, opened, idx, loc, events, ended, resThrows, shadow, xid, failed, outcome,
                    playlistUrl, dom, songData, arg, ret,
                    probe, openPages, scroll, fetchLog,
                    api, sess, chrome >>

\* `res.writeHead(200); res.end(JSON.stringify(info || {}))`, or the catch
\* block's 500 when the awaited call rejected
SingleRespond ==
    /\ op = "single" /\ status = 0
    /\ unit # << >> /\ unit[1].pc = "settled"
    /\ status' = IF unit[1].info.settled = "resolved" THEN 200 ELSE 500
    /\ unit' = [unit EXCEPT ![1].pc = "done"]
    /\ UNCHANGED << body, op, uuids, results, returned, pc, browser, launches,
                    page, opened, idx, loc, events, ended, resThrows, shadow, xid, failed, outcome,
                    playlistUrl, dom, songData, arg, ret,
                    probe, openPages, scroll, fetchLog,
                    api, sess, chrome >>

(***************************************************************************)
(* The /api/fetch-artists-stream handler (rendered tier, server-sent       *)
(* events). pc follows the async function started by the handler:          *)
(*   launch -> [ newPage -> setUA -> goto -> waitSel -> sleep -> evaluate  *)
(*              -> closePage -> write ]* -> writeDone -> end -> finally    *)
(* with "catch", "catchEnd" for the outer catch block.                     *)
(***************************************************************************)
SunoAI == << "S", "u", "n", "o", " ", "A", "I" >>

\* nothing known yet of the item: wait is "none", "found" or "timeout";
\* anchor is "none", "absent", "present" or "threw" (what page.evaluate met)
NoProbe == [wait |-> "none", anchor |-> "none"]

\* `let artist = 'Suno AI'; let style = ''; let description = '';`
NoLoc == [artist |-> SunoAI, style |-> << >>, description |-> << >>]

\* what page.evaluate returns: artist is << >> for null
SongDatas ==
    { [artist |-> << >>, style |-> << >>, description |-> << >>],
      [artist |-> H_Link, style |-> S_Rock, description |-> S_Prompt],
      [artist |-> << >>, style |-> S_Rock, description |-> << >>] }

\* `if (songData.artist) artist = songData.artist; ...`
Merge(l, d) ==
    [artist |-> IF d.artist # << >> THEN d.artist ELSE l.artist,
     style |-> IF d.style # << >> THEN d.style ELSE l.style,
     description |-> IF d.description # << >> THEN d.description ELSE l.description]

DataEvent(uuid, l) ==
    [type |-> "data", uuid |-> uuid, artist |-> l.artist, style |-> l.style,
     description |-> l.description]
DoneEvent ==
    [type |-> "done", uuid |-> "", artist |-> << >>, style |-> << >>,
     description |-> << >>]
ErrorEvent ==
    [type |-> "error", uuid |-> "", artist |-> << >>, style |-> << >>,
     description |-> << >>]

\* a handler that writes each event again when the write is retried
Emit_Duplicate(evs, ev) == evs \o << ev, ev >>

\* a handler that collects the events and writes them after the loop
Emit_Buffered(evs, ev) == IF ev.type = "data" THEN evs ELSE evs \o << ev >>

\* res.write(`data: ${JSON.stringify(ev)}\n\n`)
Emit(evs, ev) == Append(evs, ev)

\* the outcomes of a res.write call
WriteOutcomes == IF resThrows THEN {"ok", "throw"} ELSE {"ok"}

\* `const uuids = uuidsParam.split(',')` of a non-empty parameter
StreamInputs == SeqsUpTo(Ids, MaxStream) \ {<< >>}

StreamRequest ==
    /\ op = "idle"
    /\ \/ /\ status' = 400                      \* no uuids parameter
          /\ UNCHANGED << uuids, pc >>
       \/ \E us \in StreamInputs :
            /\ uuids' = us
            /\ status' = 200                    \* res.writeHead(200, event-stream)
            /\ pc' = "launch"
    /\ op' = "stream"
    /\ UNCHANGED << body, unit, results, returned, browser, launches, page, opened,
                    idx, loc, events, ended, resThrows, shadow, xid, failed, outcome,
                    playlistUrl, dom, songData, arg, ret,
                    probe, openPages, scroll, fetchLog,
                    api, sess, chrome >>

\* `browser = await puppeteer.launch(...)`, then the head of the for loop
S_Launch ==
    /\ op = "stream" /\ pc = "launch"
    /\ \/ /\ browser' = "open"
          /\ launches' = launches + 1
          /\ idx' = 1
          /\ pc' = "newPage"
       \/ /\ pc' = "catch"
          /\ UNCHANGED << browser, launches, idx >>
    /\ UNCHANGED << body, op, status, uuids, unit, results, returned, page, opened,
                    loc, events, ended, resThrows, shadow, xid, failed, outcome,
                    playlistUrl, dom, songData, arg, ret,
                    probe, openPages, scroll, fetchLog,
                    api, sess, chrome >>

\* `page = await browser.newPage()`; on a throw the inner catch logs and the
\* inner finally finds page undefined
S_NewPage ==
    /\ op = "stream" /\ pc = "newPage"
    /\ \/ /\ page' = "open"
          /\ opened' = opened + 1
          /\ openPages' = openPages + 1
          /\ pc' = "setUA"
          /\ UNCHANGED failed
       \/ /\ pc' = "write"
          /\ failed' = failed \cup {idx}
          /\ UNCHANGED << page, opened, openPages >>
    /\ probe' = NoProbe
    /\ UNCHANGED << body, op, status, uuids, unit, results, returned, browser,
                    launches, idx, loc, events, ended, resThrows, shadow, xid, outcome,
                    playlistUrl, dom, songData, arg, ret,
                    scroll, fetchLog,
                    api, sess, chrome >>

\* an inner catch that replaces the browser after a failed page call
InnerAwait_Relaunch(from, to) ==
    /\ op = "stream" /\ pc = from
    /\ \/ pc' = to /\ UNCHANGED << failed, launches >>
       \/ pc' = "closePage" /\ failed' = failed \cup {idx} /\ launches' = launches + 1
    /\ UNCHANGED << body, op, status, uuids, unit, results, returned, browser,
                    page, opened, idx, loc, events, ended, resThrows, shadow, xid,
                    outcome,
                    playlistUrl, dom, songData, arg, ret,
                    probe, openPages, scroll, fetchLog,
                    api, sess, chrome >>

\* an awaited page call inside the inner try: it returns, or it throws into
\* the inner catch and the inner finally closes the page
InnerAwait(from, to) ==
    /\ op = "stream" /\ pc = from
    /\ \/ pc' = to /\ UNCHANGED failed
       \/ pc' = "closePage" /\ failed' = failed \cup {idx}
    /\ UNCHANGED << body, op, status, uuids, unit, results, returned, browser,
                    launches, page, opened, idx, loc, events, ended, resThrows, shadow, xid,
                    outcome,
                    playlistUrl, dom, songData, arg, ret,
                    probe, openPages, scroll, fetchLog,
                    api, sess, chrome >>

S_SetUserAgent == InnerAwait("setUA", "goto")

S_Goto == InnerAwait("goto", "waitSel")

\* the outcomes of `page.waitForSelector('a[href^="/@"]', { timeout: 10000 })`
WaitOutcomes == {"found", "timeout"}

\* a readiness wait whose timeout is caught by the inner catch of the item
S_WaitForSelector_Throws ==
    /\ op = "stream" /\ pc = "waitSel"
    /\ \E w \in WaitOutcomes :
         /\ probe' = [probe EXCEPT !.wait = w]
         /\ IF w = "timeout"
            THEN pc' = "closePage" /\ failed' = failed \cup {idx}
            ELSE pc' = "sleep" /\ UNCHANGED failed
    /\ UNCHANGED << body, op, status, uuids, unit, results, returned, browser,
                    launches, page, opened, idx, loc, events, ended, resThrows, shadow, xid,
                    outcome,
                    playlistUrl, dom, songData, arg, ret,
                    openPages, scroll, fetchLog,
                    api, sess, chrome >>

\* `try { await page.waitForSelector(...) } catch (e) { }`: the anchor
\* appears, or the wait times out and the empty catch swallows the error
S_WaitForSelector ==
    /\ op = "stream" /\ pc = "waitSel"
    /\ \E w \in WaitOutcomes : probe' = [probe EXCEPT !.wait = w]
    /\ pc' = "sleep"
    /\ UNCHANGED << body, op, status, uuids, unit, results, returned, browser,
                    launches, page, opened, idx, loc, events, ended, resThrows, shadow, xid, failed,
                    outcome,
                    playlistUrl, dom, songData, arg, ret,
                    openPages, scroll, fetchLog,
                    api, sess, chrome >>

\* `await new Promise(r => setTimeout(r, 500))`
S_Sleep ==
    /\ op = "stream" /\ pc = "sleep"
    /\ pc' = "evaluate"
    /\ UNCHANGED << body, op, status, uuids, unit, results, returned, browser,
                    launches, page, opened, idx, loc, events, ended, resThrows, shadow, xid, failed,
                    outcome,
                    playlistUrl, dom, songData, arg, ret,
                    probe, openPages, scroll, fetchLog,
                    api, sess, chrome >>

\* `const songData = await page.evaluate(...)` and the three assignments
S_Evaluate ==
    /\ op = "stream" /\ pc = "evaluate"
    /\ \/ \E d \in SongDatas :
            /\ loc' = Merge(loc, d)
            /\ probe' = [probe EXCEPT
                            !.anchor = IF d.artist = << >> THEN "absent" ELSE "present"]
            /\ UNCHANGED failed
       \/ /\ failed' = failed \cup {idx}
          /\ probe' = [probe EXCEPT !.anchor = "threw"]
          /\ UNCHANGED loc
    /\ pc' = "closePage"
    /\ UNCHANGED << body, op, status, uuids, unit, results, returned, browser,
                    launches, page, opened, idx, events, ended, resThrows, shadow, xid,
                    outcome,
                    playlistUrl, dom, songData, arg, ret,
                    openPages, scroll, fetchLog,
                    api, sess, chrome >>

\* an inner finally that leaves the page of the item open
S_ClosePage_Skip ==
    /\ op = "stream" /\ pc = "closePage"
    /\ pc' = "write"
    /\ UNCHANGED << body, op, status, uuids, unit, results, returned, browser,
                    launches, opened, idx, loc, events, ended, resThrows, shadow, xid,
                    outcome, page, failed,
                    playlistUrl, dom, songData, arg, ret,
                    probe, openPages, scroll, fetchLog,
                    api, sess, chrome >>

\* `finally { if (page) await page.close(); }`: a throw of page.close()
\* leaves the for loop and reaches the outer catch, with the page still
\* open or already gone
S_ClosePage ==
    /\ op = "stream" /\ pc = "closePage"
    /\ \/ /\ page' = "closed"
          /\ openPages' = openPages - 1
          /\ pc' = "write"
          /\ UNCHANGED failed
       \/ /\ pc' = "catch"
          /\ failed' = failed \cup {idx}
          /\ \/ UNCHANGED << page, openPages >>
             \/ page' = "closed" /\ openPages' = openPages - 1
    /\ UNCHANGED << body, op, status, uuids, unit, results, returned, browser,
                    launches, opened, idx, loc, events, ended, resThrows, shadow, xid,
                    outcome,
                    playlistUrl, dom, songData, arg, ret,
                    probe, scroll, fetchLog,
                    api, sess, chrome >>

\* a loop that writes no data event for an item whose processing threw
S_WriteData_SkipFailed ==
    /\ op = "stream" /\ pc = "write"
    /\ events' = IF idx \in failed THEN events
                 ELSE Emit(events, DataEvent(uuids[idx], loc))
    /\ IF idx < Len(uuids)
       THEN /\ idx' = idx + 1
            /\ loc' = NoLoc
            /\ page' = "none"
            /\ pc' = "newPage"
       ELSE /\ pc' = "writeDone"
            /\ UNCHANGED << idx, loc, page >>
    /\ UNCHANGED << body, op, status, uuids, unit, results, returned, browser,
                    launches, opened, ended, resThrows, shadow, xid, failed, outcome,
                    playlistUrl, dom, songData, arg, ret,
                    probe, openPages, scroll, fetchLog,
                    api, sess, chrome >>

\* `res.write(data event)`, then the next iteration of the for loop or its end
S_WriteData ==
    /\ op = "stream" /\ pc = "write"
    /\ \E w \in WriteOutcomes :
         IF w = "ok"
         THEN /\ events' = Emit(events, DataEvent(uuids[idx], loc))
              /\ IF idx < Len(uuids)
                 THEN /\ idx' = idx + 1
                      /\ loc' = NoLoc
                      /\ page' = "none"
                      /\ pc' = "newPage"
                 ELSE /\ pc' = "writeDone"
                      /\ UNCHANGED << idx, loc, page >>
         ELSE /\ pc' = "catch"
              /\ UNCHANGED << events, idx, loc, page >>
    /\ UNCHANGED << body, op, status, uuids, unit, results, returned, browser,
                    launches, opened, ended, resThrows, shadow, xid, failed, outcome,
                    playlistUrl, dom, songData, arg, ret,
                    probe, openPages, scroll, fetchLog,
                    api, sess, chrome >>

\* `res.write(done event)`
S_WriteDone ==
    /\ op = "stream" /\ pc = "writeDone"
    /\ \E w \in WriteOutcomes :
         IF w = "ok"
         THEN /\ events' = Emit(events, DoneEvent)
              /\ pc' = "end"
         ELSE /\ pc' = "catch"
              /\ UNCHANGED events
    /\ UNCHANGED << body, op, status, uuids, unit, results, returned, browser,
                    launches, page, opened, idx, loc, ended, resThrows, shadow, xid, failed, outcome,
                    playlistUrl, dom, songData, arg, ret,
                    probe, openPages, scroll, fetchLog,
                    api, sess, chrome >>

\* `res.end()` at the end of the try block
S_End ==
    /\ op = "stream" /\ pc = "end"
    /\ ended' = TRUE
    /\ outcome' = "returned"
    /\ pc' = "finally"
    /\ UNCHANGED << body, op, status, uuids, unit, results, returned, browser,
                    launches, page, opened, idx, loc, events, resThrows, shadow, xid, failed,
                    playlistUrl, dom, songData, arg, ret,
                    probe, openPages, scroll, fetchLog,
                    api, sess, chrome >>

\* an outer catch block that only logs the error
S_Catch_Silent ==
    /\ op = "stream" /\ pc = "catch"
    /\ pc' = "catchEnd"
    /\ UNCHANGED << body, op, status, uuids, unit, results, returned, browser,
                    launches, page, opened, idx, loc, events, ended, resThrows,
                    shadow, xid, failed, outcome,
                    playlistUrl, dom, songData, arg, ret,
                    probe, openPages, scroll, fetchLog,
                    api, sess, chrome >>

\* `catch (e) { res.write(error event); ...`; a throw here leaves the function
S_Catch ==
    /\ op = "stream" /\ pc = "catch"
    /\ \E w \in WriteOutcomes :
         IF w = "ok"
         THEN /\ events' = Emit(events, ErrorEvent)
              /\ pc' = "catchEnd"
              /\ UNCHANGED outcome
         ELSE /\ pc' = "finally"
              /\ outcome' = "threw"
              /\ UNCHANGED events
    /\ UNCHANGED << body, op, status, uuids, unit, results, returned, browser,
                    launches, page, opened, idx, loc, ended, resThrows, shadow, xid, failed,
                    playlistUrl, dom, songData, arg, ret,
                    probe, openPages, scroll, fetchLog,
                    api, sess, chrome >>

\* `... res.end(); }` of the catch block
S_CatchEnd ==
    /\ op = "stream" /\ pc = "catchEnd"
    /\ ended' = TRUE
    /\ outcome' = "returned"
    /\ pc' = "finally"
    /\ UNCHANGED << body, op, status, uuids, unit, results, returned, browser,
                    launches, page, opened, idx, loc, events, resThrows, shadow, xid, failed,
                    playlistUrl, dom, songData, arg, ret,
                    probe, openPages, scroll, fetchLog,
                    api, sess, chrome >>

(***************************************************************************)
(* fetchPlaylistSongs and the /api/fetch-playlist handler.                 *)
(*                                                                         *)
(* A playlist URL is [prefix, rest]: whether it holds "suno.com/playlist/" *)
(* and the text that follows it.                                           *)
(***************************************************************************)
Rep(c, n) == [i \in 1..n |-> c]

\* a token of the shape 8-4-4-4-12 whose digits are all c
Uuid(c) ==
    Rep(c, 8) \o << "-" >> \o Rep(c, 4) \o << "-" >> \o Rep(c, 4) \o << "-" >>
    \o Rep(c, 4) \o << "-" >> \o Rep(c, 12)

NoUrl == [prefix |-> FALSE, rest |-> << >>]

PlaylistUrls ==
    { [prefix |-> TRUE,  rest |-> Uuid("C") \o << "?", "x" >>],
      [prefix |-> TRUE,  rest |-> Uuid("c")],
      [prefix |-> TRUE,  rest |-> << "a", "B", "-", "1", "?", "x" >>],
      [prefix |-> TRUE,  rest |-> << "-" >>],
      [prefix |-> TRUE,  rest |-> << "z", "a" >>],
      [prefix |-> FALSE, rest |-> Uuid("c")],
      [prefix |-> FALSE, rest |-> << "a", "b" >>] }

\* a match that looks for the identifier characters only, anywhere
PlaylistMatch_AnyHex(url) ==
    SubSeq(url.rest, 1, RunLen(url.rest, HexDigits \cup {"-"}))

\* playlistUrl.match(/suno\.com\/playlist\/([a-f0-9-]+)/i): the capture, << >> for null
PlaylistMatch(url) ==
    IF url.prefix
    THEN SubSeq(url.rest, 1, RunLen(url.rest, HexDigits \cup {"-"}))
    ELSE << >>

(***************************************************************************)
(* The document the extraction script of fetchPlaylistSongs runs against.  *)
(* anchors are the elements of querySelectorAll('a[href*="/song/"]') in    *)
(* document order; of each one the model keeps its href, the text of the   *)
(* title and artist elements of its container (<< >> when there is none)   *)
(* and its own text. body is document.body.innerHTML. An element that may  *)
(* be missing is << >> or << its text >>.                                  *)
(***************************************************************************)
\* /[a-f0-9]{8}-[a-f0-9]{4}-[a-f0-9]{4}-[a-f0-9]{4}-[a-f0-9]{12}/i tried at the start of s
UuidAtStart(s) ==
    /\ Len(s) >= 36
    /\ \A i \in 1..36 :
         IF i \in {9, 14, 19, 24} THEN s[i] = "-" ELSE s[i] \in HexDigits

\* html.match(/<uuid>/gi) || []: the matches from left to right, each search
\* starting where the previous match ended
RECURSIVE MatchAllUuids(_)
MatchAllUuids(s) ==
    IF Len(s) < 36 THEN << >>
    ELSE IF UuidAtStart(s)
         THEN << SubSeq(s, 1, 36) >> \o MatchAllUuids(SubSeq(s, 37, Len(s)))
         ELSE MatchAllUuids(Tail(s))

SongPath == << "/", "s", "o", "n", "g", "/" >>

\* a.href.match(/\/song\/(<uuid>)/i): the capture of the leftmost match, << >> for null
RECURSIVE SongHrefMatch(_)
SongHrefMatch(s) ==
    IF Len(s) < 42 THEN << >>
    ELSE IF LowerStr(SubSeq(s, 1, 6)) = SongPath /\ UuidAtStart(SubSeq(s, 7, Len(s)))
         THEN SubSeq(s, 7, 42)
         ELSE SongHrefMatch(Tail(s))

\* creatorLink.href.match(/\/@([a-zA-Z0-9_]+)/): the capture, << >> for null
RECURSIVE CreatorMatch(_)
CreatorMatch(s) ==
    IF Len(s) < 3 THEN << >>
    ELSE IF SubSeq(s, 1, 2) = << "/", "@" >> /\ s[3] \in WordChars
         THEN LET r == SubSeq(s, 3, Len(s)) IN SubSeq(r, 1, RunLen(r, WordChars))
         ELSE CreatorMatch(Tail(s))

Anchor(href, titleEl, artistEl, text) ==
    [href |-> href, titleEl |-> titleEl, artistEl |-> artistEl, text |-> text]

Dom(anchors, b, h1, creatorLink, descEl) ==
    [anchors |-> anchors, body |-> b, h1 |-> h1, creatorLink |-> creatorLink,
     descEl |-> descEl]

NoDom == Dom(<< >>, << >>, << >>, << >>, << >>)

Href(u) == << "h" >> \o SongPath \o u
X_Title == << " ", "T", "1", " " >>
X_Name == << "n", "m" >>
X_Creator == << "/", "@", "j", "o", "e", "/", "x" >>
X_Sep == << " ", "z" >>

\* u followed, without a gap, by the last four groups of another token
X_Overlap ==
    Uuid("1") \o << "-" >> \o Rep("2", 4) \o << "-" >> \o Rep("2", 4)
    \o << "-" >> \o Rep("2", 4) \o << "-" >> \o Rep("2", 12)

Doms ==
    { Dom(<< Anchor(Href(Uuid("a")), << X_Title >>, << X_Name >>, << >>),
             Anchor(Href(Uuid("A")), << >>, << >>, X_Name),
             Anchor(Href(Uuid("b")), << << " " >> >>, << >>, X_Title),
             Anchor(Href(Uuid("C")), << >>, << >>, << >>) >>,
          Href(Uuid("a")) \o X_Sep \o Uuid("c"),
          << X_Title >>, << X_Creator >>, << X_Title >>),
      Dom(<< Anchor(Href(Uuid("B")), << >>, << >>, << >>),
             Anchor(Href(Uuid("a")), << >>, << >>, << >>),
             Anchor(Href(Uuid("b")), << X_Title >>, << >>, << >>),
             Anchor(SongPath \o X_Name, << >>, << >>, << >>) >>,
          Uuid("b") \o X_Sep \o Uuid("d") \o Uuid("a"),
          << >>, << >>, << >>),
      Dom(<< >>,
          Uuid("a") \o X_Sep \o Uuid("A") \o Uuid("C") \o X_Sep \o Uuid("b")
              \o X_Sep \o Uuid("a"),
          << X_Title >>, << << "/", "@" >> >>, << >>),
      Dom(<< Anchor(Href(Uuid("c")), << X_Title >>, << >>, << >>),
             Anchor(SongPath \o X_Name, << >>, << >>, X_Name) >>,
          Uuid("c") \o X_Sep \o Uuid("B") \o X_Sep \o X_Overlap,
          << >>, << X_Creator >>, << >>),
      Dom(<< >>, X_Sep \o Uuid("c") \o X_Name, << >>, << >>, << >>),
      Dom(<< >>, X_Name, << >>, << >>, << >>) }

Song(uuid, title, artist) == [uuid |-> uuid, title |-> title, artist |-> artist]

\* the text of the first element of an optional element, trimmed; << >> when missing
TextOf(el) == IF el = << >> THEN << >> ELSE trim(el[1])

\* the title the forEach callback finds for anchor a
AnchorTitle(a) ==
    LET t1 == IF a.titleEl # << >> /\ Len(TextOf(a.titleEl)) > 0
                 /\ Len(TextOf(a.titleEl)) < 100
              THEN TextOf(a.titleEl) ELSE << >>
    IN  IF t1 = << >> /\ Len(trim(a.text)) > 0 /\ Len(trim(a.text)) < 100
        THEN trim(a.text) ELSE t1

\* a forEach whose duplicate test looks up the match as written in the href
\* (the Set holds lower-cased identifiers, so only a lowercase match is found)
RECURSIVE AnchorSongs_CaseSensitive(_, _, _)
AnchorSongs_CaseSensitive(anchors, plId, acc) ==
    IF anchors = << >> THEN acc
    ELSE LET a == Head(anchors)
             match == SongHrefMatch(a.href)
             uuid == LowerStr(match)
         IN  IF match # << >> /\ uuid # plId
                /\ (match = uuid => uuid \notin {acc[i].uuid : i \in DOMAIN acc})
             THEN AnchorSongs_CaseSensitive(Tail(anchors), plId,
                      Append(acc, Song(uuid, AnchorTitle(a), TextOf(a.artistEl))))
             ELSE AnchorSongs_CaseSensitive(Tail(anchors), plId, acc)

\* the forEach over the song anchors: acc is the songs array so far (the
\* uuids Set holds exactly the uuid of every song pushed)
RECURSIVE AnchorSongs(_, _, _)
AnchorSongs(anchors, plId, acc) ==
    IF anchors = << >> THEN acc
    ELSE LET a == Head(anchors)
             match == SongHrefMatch(a.href)
             uuid == LowerStr(match)
         IN  IF match # << >> /\ uuid # plId
                /\ uuid \notin {acc[i].uuid : i \in DOMAIN acc}
             THEN AnchorSongs(Tail(anchors), plId,
                      Append(acc, Song(uuid, AnchorTitle(a), TextOf(a.artistEl))))
             ELSE AnchorSongs(Tail(anchors), plId, acc)

\* [...new Set(list)]: the first occurrence of every element, in order
RECURSIVE Distinct(_, _)
Distinct(list, acc) ==
    IF list = << >> THEN acc
    ELSE IF Head(list) \in {acc[i] : i \in DOMAIN acc}
         THEN Distinct(Tail(list), acc)
         ELSE Distinct(Tail(list), Append(acc, Head(list)))

\* a fallback that removes duplicates before it lower-cases
FallbackSongs_DedupFirst(b, plId) ==
    LET allUuids == Distinct(MatchAllUuids(b), << >>)
        lowered == [i \in DOMAIN allUuids |-> LowerStr(allUuids[i])]
        kept == SelectSeq(lowered, LAMBDA u : u # plId)
    IN  [i \in DOMAIN kept |-> Song(kept[i], << >>, << >>)]

\* the fallback: every uuid found in the body, lower-cased, once, but plId
FallbackSongs(b, plId) ==
    LET allUuids == MatchAllUuids(b)
        lowered == [i \in DOMAIN allUuids |-> LowerStr(allUuids[i])]
        kept == SelectSeq(Distinct(lowered, << >>), LAMBDA u : u # plId)
    IN  [i \in DOMAIN kept |-> Song(kept[i], << >>, << >>)]

UnknownPlaylist == << "U", "n", "k", "n", "o", "w", "n" >>

\* a script that scans the body whatever the anchors gave
ExtractSongData_AlwaysScan(d, plId) ==
    LET found == AnchorSongs(d.anchors, plId, << >>)
        scanned == FallbackSongs(d.body, plId)
        extra == SelectSeq(scanned,
                           LAMBDA x : x.uuid \notin {found[i].uuid : i \in DOMAIN found})
    IN  [playlistId |-> plId,
         playlistTitle |-> IF d.h1 # << >> THEN TextOf(d.h1) ELSE UnknownPlaylist,
         playlistDescription |-> TextOf(d.descEl),
         creatorUsername |-> IF d.creatorLink # << >>
                             THEN CreatorMatch(d.creatorLink[1]) ELSE << >>,
         songs |-> found \o extra]

\* the script page.evaluate runs with plId: the value it returns
ExtractSongData(d, plId) ==
    LET found == AnchorSongs(d.anchors, plId, << >>)
        songs == IF Len(found) = 0 THEN FallbackSongs(d.body, plId) ELSE found
    IN  [playlistId |-> plId,
         playlistTitle |-> IF d.h1 # << >> THEN TextOf(d.h1) ELSE UnknownPlaylist,
         playlistDescription |-> TextOf(d.descEl),
         creatorUsername |-> IF d.creatorLink # << >>
                             THEN CreatorMatch(d.creatorLink[1]) ELSE << >>,
         songs |-> songs]

\* an awaited call of a Puppeteer operation whose try has only a finally:
\* it returns, or it throws and the finally block runs
Await(o, from, to, fin) ==
    /\ op = o /\ pc = from
    /\ \/ pc' = to /\ UNCHANGED outcome
       \/ pc' = fin /\ outcome' = "threw"
    /\ UNCHANGED << body, op, status, uuids, unit, results, returned, browser,
                    launches, page, opened, idx, loc, events, ended, resThrows, shadow, xid,
                    failed,
                    playlistUrl, dom, songData, arg, ret,
                    probe, openPages, scroll, fetchLog,
                    api, sess, chrome >>

\* a timer (sleep): it cannot throw
Timer(o, from, to) ==
    /\ op = o /\ pc = from
    /\ pc' = to
    /\ UNCHANGED << body, op, status, uuids, unit, results, returned, browser,
                    launches, page, opened, idx, loc, events, ended, resThrows, shadow, xid,
                    failed, outcome,
                    playlistUrl, dom, songData, arg, ret,
                    probe, openPages, scroll, fetchLog,
                    api, sess, chrome >>

\* `browser = await puppeteer.launch(...)`
Launch(o, from, to, fin) ==
    /\ op = o /\ pc = from
    /\ \/ /\ browser' = "open"
          /\ launches' = launches + 1
          /\ pc' = to
          /\ UNCHANGED outcome
       \/ /\ pc' = fin
          /\ outcome' = "threw"
          /\ UNCHANGED << browser, launches >>
    /\ UNCHANGED << body, op, status, uuids, unit, results, returned, page, opened,
                    idx, loc, events, ended, resThrows, shadow, xid, failed,
                    playlistUrl, dom, songData, arg, ret,
                    probe, openPages, scroll, fetchLog,
                    api, sess, chrome >>

\* `const page = await browser.newPage()`
NewPage(o, from, to, fin) ==
    /\ op = o /\ pc = from
    /\ \/ /\ page' = "open"
          /\ opened' = opened + 1
          /\ openPages' = openPages + 1
          /\ pc' = to
          /\ UNCHANGED outcome
       \/ /\ pc' = fin
          /\ outcome' = "threw"
          /\ UNCHANGED << page, opened, openPages >>
    /\ UNCHANGED << body, op, status, uuids, unit, results, returned, browser,
                    launches, idx, loc, events, ended, resThrows, shadow, xid, failed,
                    playlistUrl, dom, songData, arg, ret,
                    probe, scroll, fetchLog,
                    api, sess, chrome >>

\* a finally block that closes the browser only when the try block returned
CloseBrowser_OnSuccessOnly(o, from, to) ==
    /\ op = o /\ pc = from
    /\ IF browser = "open" /\ outcome = "returned"
       THEN /\ browser' = "closed"
            /\ page' = IF page = "open" THEN "closed" ELSE page
            /\ openPages' = 0
       ELSE UNCHANGED << browser, page, openPages >>
    /\ pc' = to
    /\ UNCHANGED << body, op, status, uuids, unit, results, returned, launches,
                    opened, idx, loc, events, ended, resThrows, shadow, xid, failed, outcome,
                    playlistUrl, dom, songData, arg, ret,
                    probe, scroll, fetchLog,
                    api, sess, chrome >>

\* `finally { if (browser) await browser.close(); }`: closing the browser
\* closes the pages it still has
CloseBrowser(o, from, to) ==
    /\ op = o /\ pc = from
    /\ IF browser = "open"
       THEN /\ browser' = "closed"
            /\ page' = IF page = "open" THEN "closed" ELSE page
            /\ openPages' = 0
       ELSE UNCHANGED << browser, page, openPages >>
    /\ pc' = to
    /\ UNCHANGED << body, op, status, uuids, unit, results, returned, launches,
                    opened, idx, loc, events, ended, resThrows, shadow, xid, failed, outcome,
                    playlistUrl, dom, songData, arg, ret,
                    probe, scroll, fetchLog,
                    api, sess, chrome >>

\* a handler whose catch block answers 200 with what was gathered so far
Respond_PartialOnError(o, from) ==
    /\ op = o /\ pc = from
    /\ status' = 200
    /\ pc' = "terminated"
    /\ UNCHANGED << body, op, uuids, unit, results, returned, browser, launches,
                    page, opened, idx, loc, events, ended, resThrows, shadow, xid, failed,
                    outcome,
                    playlistUrl, dom, songData, arg, ret,
                    probe, openPages, scroll, fetchLog,
                    api, sess, chrome >>

\* the handler after the awaited function: 200 with its value, 500 when it threw
Respond(o, from) ==
    /\ op = o /\ pc = from
    /\ status' = IF outcome = "returned" THEN 200 ELSE 500
    /\ pc' = "terminated"
    /\ UNCHANGED << body, op, uuids, unit, results, returned, browser, launches,
                    page, opened, idx, loc, events, ended, resThrows, shadow, xid, failed,
                    outcome,
                    playlistUrl, dom, songData, arg, ret,
                    probe, openPages, scroll, fetchLog,
                    api, sess, chrome >>

\* the handler up to the first await of fetchPlaylistSongs
PlaylistRequest ==
    /\ op = "idle"
    /\ \/ /\ status' = 400                              \* no url parameter
          /\ pc' = "terminated"
          /\ UNCHANGED << outcome, playlistUrl >>
       \/ \E url \in PlaylistUrls :
            /\ playlistUrl' = url
            /\ UNCHANGED status
            /\ IF PlaylistMatch(url) = << >>
               THEN /\ outcome' = "threw"                 \* Invalid playlist URL
                    /\ pc' = "p_respond"
               ELSE /\ pc' = "p_launch"
                    /\ UNCHANGED outcome
    /\ op' = "playlist"
    /\ UNCHANGED << body, uuids, unit, results, returned, browser, launches,
                    page, opened, idx, loc, events, ended, resThrows, shadow, xid, failed,
                    dom, songData, arg, ret,
                    probe, openPages, scroll, fetchLog,
                    api, sess, chrome >>

P_Launch == Launch("playlist", "p_launch", "p_newPage", "p_finally")
P_NewPage == NewPage("playlist", "p_newPage", "p_setUA", "p_finally")
P_SetUserAgent == Await("playlist", "p_setUA", "p_goto", "p_finally")
P_Goto == Await("playlist", "p_goto", "p_sleep1", "p_finally")
P_Sleep1 == Timer("playlist", "p_sleep1", "p_scroll")
P_Scroll == Await("playlist", "p_scroll", "p_sleep2", "p_finally")
P_Sleep2 == Timer("playlist", "p_sleep2", "p_extract")

\* `const songData = await page.evaluate(...); return songData;`
P_Extract ==
    /\ op = "playlist" /\ pc = "p_extract"
    /\ \/ \E d \in Doms :
            /\ dom' = d
            /\ songData' = << ExtractSongData(d, LowerStr(PlaylistMatch(playlistUrl))) >>
            /\ outcome' = "returned"
       \/ /\ outcome' = "threw"
          /\ UNCHANGED << dom, songData >>
    /\ pc' = "p_finally"
    /\ UNCHANGED << body, op, status, uuids, unit, results, returned, browser,
                    launches, page, opened, idx, loc, events, ended, resThrows, shadow, xid,
                    failed, playlistUrl, arg, ret,
                    probe, openPages, scroll, fetchLog,
                    api, sess, chrome >>

P_Finally == CloseBrowser("playlist", "p_finally", "p_respond")
S_Finally == CloseBrowser("stream", "finally", "terminated")
P_Respond == Respond("playlist", "p_respond")

(***************************************************************************)
(* fetchUserPlaylists and the /api/fetch-user-playlists handler.           *)
(***************************************************************************)
UserRequest ==
    /\ op = "idle"
    /\ \/ /\ status' = 400                              \* no username parameter
          /\ pc' = "terminated"
       \/ /\ pc' = "u_api"
          /\ UNCHANGED status
    /\ op' = "user"
    /\ UNCHANGED << body, uuids, unit, results, returned, browser, launches, page,
                    opened, idx, loc, events, ended, resThrows, shadow, xid, failed, outcome,
                    playlistUrl, dom, songData, arg, ret,
                    probe, openPages, scroll, fetchLog,
                    api, sess, chrome >>

\* `await fetch(profile API)`: rejected or not ok -> the Puppeteer fallback
U_Api ==
    /\ op = "user" /\ pc = "u_api"
    /\ \E r \in {"neterr", "non2xx", "ok"} :
         /\ api' = r
         /\ pc' = IF r = "ok" THEN "u_json" ELSE "u_launch"
    /\ UNCHANGED << body, op, status, uuids, unit, results, returned, browser,
                    launches, page, opened, idx, loc, events, ended, resThrows, shadow, xid,
                    failed, outcome,
                    playlistUrl, dom, songData, arg, ret,
                    probe, openPages, scroll, fetchLog,
                    sess, chrome >>

\* what `await apiResponse.json()` gives: a rejection, a value that holds no
\* array (a JSON null makes Object.keys throw), an empty array, an array of
\* objects with an id, an array of entries without an id (filtered out), or
\* an array with a null entry (`p.id` throws inside the map callback)
JsonKinds == {"jsonerr", "noarray", "emptyarray", "array", "arrayNoIds", "arrayNull"}

\* `await apiResponse.json()`: a non-empty array is mapped, filtered and
\* returned at once; a rejection, a throw or anything else goes to the
\* Puppeteer fallback
U_Json ==
    /\ op = "user" /\ pc = "u_json"
    /\ \E k \in JsonKinds :
         /\ api' = k
         /\ IF k \in {"array", "arrayNoIds"}
            THEN /\ outcome' = "returned"
                 /\ pc' = "u_respond"
            ELSE /\ pc' = "u_launch"
                 /\ UNCHANGED outcome
    /\ UNCHANGED << body, op, status, uuids, unit, results, returned, browser,
                    launches, page, opened, idx, loc, events, ended, resThrows, shadow, xid,
                    failed,
                    playlistUrl, dom, songData, arg, ret,
                    probe, openPages, scroll, fetchLog,
                    sess, chrome >>

U_Launch == Launch("user", "u_launch", "u_newPage", "u_finally")
U_NewPage == NewPage("user", "u_newPage", "u_setUA", "u_finally")
U_SetUserAgent == Await("user", "u_setUA", "u_evalOnNew", "u_finally")
U_EvaluateOnNewDocument == Await("user", "u_evalOnNew", "u_intercept", "u_finally")
U_SetRequestInterception == Await("user", "u_intercept", "u_goto", "u_finally")
U_Goto == Await("user", "u_goto", "u_sleep1", "u_finally")
U_Sleep1 == Timer("user", "u_sleep1", "u_waitSel")
\* `try { await page.waitForSelector(...) } catch (e) { }`
U_WaitForSelector == Timer("user", "u_waitSel", "u_sleep2")
U_Sleep2 == Timer("user", "u_sleep2", "u_scroll")
U_Scroll == Await("user", "u_scroll", "u_sleep3", "u_finally")
U_Sleep3 == Timer("user", "u_sleep3", "u_nextData")

\* `const nextDataPlaylists = await page.evaluate(...)`: an array is
\* returned, anything else goes on to the DOM extraction
U_NextData ==
    /\ op = "user" /\ pc = "u_nextData"
    /\ \/ /\ outcome' = "returned"
          /\ pc' = "u_finally"
       \/ /\ outcome' = "threw"
          /\ pc' = "u_finally"
       \/ /\ pc' = "u_debug"
          /\ UNCHANGED outcome
    /\ UNCHANGED << body, op, status, uuids, unit, results, returned, browser,
                    launches, page, opened, idx, loc, events, ended, resThrows, shadow, xid,
                    failed,
                    playlistUrl, dom, songData, arg, ret,
                    probe, openPages, scroll, fetchLog,
                    api, sess, chrome >>

U_Debug == Await("user", "u_debug", "u_extract", "u_finally")

\* `const playlists = await page.evaluate(...); return playlists;`
U_Extract ==
    /\ op = "user" /\ pc = "u_extract"
    /\ outcome' \in {"returned", "threw"}
    /\ pc' = "u_finally"
    /\ UNCHANGED << body, op, status, uuids, unit, results, returned, browser,
                    launches, page, opened, idx, loc, events, ended, resThrows, shadow, xid,
                    failed,
                    playlistUrl, dom, songData, arg, ret,
                    probe, openPages, scroll, fetchLog,
                    api, sess, chrome >>

U_Finally == CloseBrowser("user", "u_finally", "u_respond")
U_Respond == Respond("user", "u_respond")

(***************************************************************************)
(* Two runs of fetchSongInfoBatch on the same input, side by side, that    *)
(* resume their callbacks in the same order. The fetch of identifier xid   *)
(* may end differently in the two runs; every other fetch ends the same.   *)
(***************************************************************************)
NoShadow == [unit |-> << >>, results |-> EmptyMap, returned |-> << >>]

\* the identifiers of the paired runs
PairIds == {"aa", "bb"}

PairRequest ==
    /\ op = "idle"
    /\ \E us \in SeqsUpTo(PairIds, MaxBatch) \ {<< >>} : \E x \in Range(us) :
         /\ uuids' = us
         /\ xid' = x
         /\ unit' = [i \in DOMAIN us |-> UnitAt("fetch", NoInfo)]
         /\ shadow' = [NoShadow EXCEPT !.unit = [i \in DOMAIN us |-> UnitAt("fetch", NoInfo)]]
    /\ op' = "pair"
    /\ body' = "ok"
    /\ UNCHANGED << status, results, returned, pc, browser, launches, page,
                    opened, idx, loc, events, ended, resThrows, failed, outcome,
                    playlistUrl, dom, songData, arg, ret,
                    probe, openPages, scroll, fetchLog,
                    api, sess, chrome >>

PairAwaitFetch(i) ==
    /\ op = "pair" /\ i \in DOMAIN unit /\ unit[i].pc = "fetch"
    /\ \E r1, r2 \in {"neterr", "timeout", "http", "ok"} :
         /\ uuids[i] # xid => r1 = r2
         /\ unit' = [unit EXCEPT ![i] = AfterFetch(uuids[i], r1)]
         /\ shadow' = [shadow EXCEPT !.unit[i] = AfterFetch(uuids[i], r2)]
    /\ UNCHANGED << op, status, body, uuids, results, returned, pc, browser,
                    launches, page, opened, idx, loc, events, ended, resThrows,
                    failed, outcome, xid,
                    playlistUrl, dom, songData, arg, ret,
                    probe, openPages, scroll, fetchLog,
                    api, sess, chrome >>

PairAwaitText(i) ==
    /\ op = "pair" /\ i \in DOMAIN unit
    /\ unit[i].pc = "text" \/ shadow.unit[i].pc = "text"
    /\ \E o1, o2 \in {o \in Outcomes : o.kind \in {"texterr", "ok"}} :
         /\ uuids[i] # xid => o1 = o2
         /\ unit' = IF unit[i].pc = "text"
                    THEN [unit EXCEPT ![i] = AfterText(uuids[i], o1)]
                    ELSE unit
         /\ shadow' = IF shadow.unit[i].pc = "text"
                      THEN [shadow EXCEPT !.unit[i] = AfterText(uuids[i], o2)]
                      ELSE shadow
    /\ UNCHANGED << op, status, body, uuids, results, returned, pc, browser,
                    launches, page, opened, idx, loc, events, ended, resThrows,
                    failed, outcome, xid,
                    playlistUrl, dom, songData, arg, ret,
                    probe, openPages, scroll, fetchLog,
                    api, sess, chrome >>

PairStore(i) ==
    /\ op = "pair" /\ i \in DOMAIN unit
    /\ unit[i].pc = "settled" /\ shadow.unit[i].pc = "settled"
    /\ results' = StoreResult(results, uuids[i], unit[i].info)
    /\ unit' = [unit EXCEPT ![i].pc = "done"]
    /\ shadow' = [shadow EXCEPT
                    !.results = StoreResult(@, uuids[i], shadow.unit[i].info),
                    !.unit[i].pc = "done"]
    /\ UNCHANGED << op, status, body, uuids, returned, pc, browser, launches,
                    page, opened, idx, loc, events, ended, resThrows, failed,
                    outcome, xid,
                    playlistUrl, dom, songData, arg, ret,
                    probe, openPages, scroll, fetchLog,
                    api, sess, chrome >>

PairReturn ==
    /\ op = "pair" /\ returned = << >>
    /\ AllDone(unit) /\ AllDone(shadow.unit)
    /\ returned' = << results >>
    /\ shadow' = [shadow EXCEPT !.returned = << shadow.results >>]
    /\ UNCHANGED << op, status, body, uuids, unit, results, pc, browser,
                    launches, page, opened, idx, loc, events, ended, resThrows,
                    failed, outcome, xid,
                    playlistUrl, dom, songData, arg, ret,
                    probe, openPages, scroll, fetchLog,
                    api, sess, chrome >>

NextPair ==
    \/ PairRequest
    \/ \E i \in DOMAIN unit : PairAwaitFetch(i)
    \/ \E i \in DOMAIN unit : PairAwaitText(i)
    \/ \E i \in DOMAIN unit : PairStore(i)
    \/ PairReturn

(***************************************************************************)
(* Two runs of fetchSongInfoBatch on the same input whose requests end the *)
(* same way (the fetch of position i has one outcome for both runs) and    *)
(* whose callbacks resume in an order of their own: unit and results are   *)
(* the first run, shadow the second.                                       *)
(***************************************************************************)
OrderRequest ==
    /\ op = "idle"
    /\ \E us \in SeqsUpTo(PairIds, MaxBatch) \ {<< >>} :
         /\ uuids' = us
         /\ unit' = [i \in DOMAIN us |-> UnitAt("fetch", NoInfo)]
         /\ shadow' = [NoShadow EXCEPT !.unit = [i \in DOMAIN us |-> UnitAt("fetch", NoInfo)]]
    /\ op' = "order"
    /\ body' = "ok"
    /\ UNCHANGED << status, results, returned, pc, browser,
                    launches, page, opened, idx, loc, events, ended, resThrows,
                    failed, outcome, xid,
                    playlistUrl, dom, songData, arg, ret,
                    probe, openPages, scroll, fetchLog,
                    api, sess, chrome >>

OrderAwaitFetch(i) ==
    /\ op = "order" /\ i \in DOMAIN unit /\ unit[i].pc = "fetch"
    /\ \E r \in {"neterr", "timeout", "http", "ok"} :
         /\ unit' = [unit EXCEPT ![i] = AfterFetch(uuids[i], r)]
         /\ shadow' = [shadow EXCEPT !.unit[i] = AfterFetch(uuids[i], r)]
    /\ UNCHANGED << op, status, body, uuids, results, returned, pc, browser,
                    launches, page, opened, idx, loc, events, ended, resThrows,
                    failed, outcome, xid,
                    playlistUrl, dom, songData, arg, ret,
                    probe, openPages, scroll, fetchLog,
                    api, sess, chrome >>

OrderAwaitText(i) ==
    /\ op = "order" /\ i \in DOMAIN unit /\ unit[i].pc = "text"
    /\ \E out \in {o \in Outcomes : o.kind \in {"texterr", "ok"}} :
         /\ unit' = [unit EXCEPT ![i] = AfterText(uuids[i], out)]
         /\ shadow' = [shadow EXCEPT !.unit[i] = AfterText(uuids[i], out)]
    /\ UNCHANGED << op, status, body, uuids, results, returned, pc, browser,
                    launches, page, opened, idx, loc, events, ended, resThrows,
                    failed, outcome, xid,
                    playlistUrl, dom, songData, arg, ret,
                    probe, openPages, scroll, fetchLog,
                    api, sess, chrome >>

\* a callback of the first run resumes
OrderStore(i) ==
    /\ op = "order" /\ i \in DOMAIN unit /\ unit[i].pc = "settled"
    /\ results' = StoreResult(results, uuids[i], unit[i].info)
    /\ unit' = [unit EXCEPT ![i].pc = "done"]
    /\ UNCHANGED << op, status, body, uuids, returned, pc, browser, shadow,
                    launches, page, opened, idx, loc, events, ended, resThrows,
                    failed, outcome, xid,
                    playlistUrl, dom, songData, arg, ret,
                    probe, openPages, scroll, fetchLog,
                    api, sess, chrome >>

\* a callback of the second run resumes
OrderShadowStore(i) ==
    /\ op = "order" /\ i \in DOMAIN shadow.unit /\ shadow.unit[i].pc = "settled"
    /\ shadow' = [shadow EXCEPT
                    !.results = StoreResult(@, uuids[i], shadow.unit[i].info),
                    !.unit[i].pc = "done"]
    /\ UNCHANGED << op, status, body, uuids, unit, results, returned, pc, browser,
                    launches, page, opened, idx, loc, events, ended, resThrows,
                    failed, outcome, xid,
                    playlistUrl, dom, songData, arg, ret,
                    probe, openPages, scroll, fetchLog,
                    api, sess, chrome >>

\* `await Promise.all(fetchPromises); return results;` of both runs
OrderReturn ==
    /\ op = "order" /\ returned = << >>
    /\ unit # << >> /\ AllDone(unit) /\ AllDone(shadow.unit)
    /\ returned' = << results >>
    /\ shadow' = [shadow EXCEPT !.returned = << shadow.results >>]
    /\ UNCHANGED << op, status, body, uuids, unit, results, pc, browser,
                    launches, page, opened, idx, loc, events, ended, resThrows,
                    failed, outcome, xid,
                    playlistUrl, dom, songData, arg, ret,
                    probe, openPages, scroll, fetchLog,
                    api, sess, chrome >>

NextOrder ==
    \/ OrderRequest
    \/ \E i \in DOMAIN unit : OrderAwaitFetch(i)
    \/ \E i \in DOMAIN unit : OrderAwaitText(i)
    \/ \E i \in DOMAIN unit : OrderStore(i)
    \/ \E i \in DOMAIN unit : OrderShadowStore(i)
    \/ OrderReturn

(***************************************************************************)
(* The scroll script of fetchPlaylistSongs, run inside the page:           *)
(*   setInterval(() => { scrollBy(0, distance); totalHeight += distance;   *)
(*                       if (totalHeight >= scrollHeight) { clear; resolve } }, 200) *)
(*   setTimeout(() => { clearInterval(timer); resolve(); }, 10000)         *)
(* The document may grow between two ticks (lazy loading). A timer fires   *)
(* no earlier than it is due, and timers fire in the order they are due:   *)
(* the k-th tick is due at k * 200 ms at the earliest, so it runs before   *)
(* the timeout only when k * 200 <= 10000.                                 *)
(***************************************************************************)
distance == 500
ScrollInterval == 200
ScrollCeiling == 10000

\* the document grows by at most MaxGrowth * distance between two ticks
MaxGrowth == 2

\* document.body.scrollHeight when the script starts
ScrollHeights == {0, 400, 1200}

NoScroll ==
    [totalHeight |-> 0, scrollHeight |-> 0, ticks |-> 0, timer |-> "none",
     timeout |-> "none", resolved |-> FALSE, grewAll |-> TRUE]

\* the executor of the promise ran: both timers are registered
ScrollStart(h) ==
    [totalHeight |-> 0, scrollHeight |-> h, ticks |-> 0, timer |-> "running",
     timeout |-> "pending", resolved |-> FALSE, grewAll |-> TRUE]

\* the interval callback
ScrollTick ==
    /\ scroll.timer = "running"
    /\ (scroll.ticks + 1) * ScrollInterval <= ScrollCeiling
    /\ \E g \in 0..MaxGrowth :
         LET total == scroll.totalHeight + distance
             height == scroll.scrollHeight + g * distance
             full == total >= height
         IN scroll' = [totalHeight |-> total,
                       scrollHeight |-> height,
                       ticks |-> scroll.ticks + 1,
                       timer |-> IF full THEN "cleared" ELSE "running",
                       timeout |-> scroll.timeout,
                       resolved |-> scroll.resolved \/ full,
                       grewAll |-> scroll.grewAll /\ g > 0]
    /\ UNCHANGED << body, op, status, uuids, unit, results, returned, pc, browser,
                    launches, page, opened, idx, loc, events, ended, resThrows, failed,
                    outcome, shadow, xid, playlistUrl, dom, songData, arg, ret, probe,
                    openPages, fetchLog,
                    api, sess, chrome >>

\* a timeout callback that resolves the promise and leaves the interval running
ScrollTimeout_NoClear ==
    /\ scroll.timeout = "pending"
    /\ scroll' = [scroll EXCEPT !.timeout = "fired", !.resolved = TRUE]
    /\ UNCHANGED << body, op, status, uuids, unit, results, returned, pc, browser,
                    launches, page, opened, idx, loc, events, ended, resThrows, failed,
                    outcome, shadow, xid, playlistUrl, dom, songData, arg, ret, probe,
                    openPages, fetchLog,
                    api, sess, chrome >>

\* the timeout callback: `clearInterval(timer); resolve();`
ScrollTimeout ==
    /\ scroll.timeout = "pending"
    /\ scroll' = [scroll EXCEPT !.timeout = "fired", !.timer = "cleared",
                                !.resolved = TRUE]
    /\ UNCHANGED << body, op, status, uuids, unit, results, returned, pc, browser,
                    launches, page, opened, idx, loc, events, ended, resThrows, failed,
                    outcome, shadow, xid, playlistUrl, dom, songData, arg, ret, probe,
                    openPages, fetchLog,
                    api, sess, chrome >>

(***************************************************************************)
(* Rendering calls that never settle. page.goto carries `timeout: 30000`   *)
(* and page.waitForSelector `timeout: 10000`: a hung call of those throws  *)
(* at its deadline, which the throw branches above cover. No deadline is   *)
(* given to browser.newPage, page.evaluate and page.close, and no timer    *)
(* surrounds the operation: the async function stays at the await.         *)
(***************************************************************************)
S_Unbounded == {"newPage", "evaluate", "closePage"}
P_Unbounded == {"p_newPage", "p_scroll", "p_extract"}

S_Hang ==
    /\ op = "stream" /\ pc \in S_Unbounded
    /\ pc' = "hung"
    /\ UNCHANGED << body, op, status, uuids, unit, results, returned, browser,
                    launches, page, opened, idx, loc, events, ended, resThrows, failed,
                    outcome, shadow, xid, playlistUrl, dom, songData, arg, ret, probe,
                    openPages, scroll, fetchLog,
                    api, sess, chrome >>

P_Hang ==
    /\ op = "playlist" /\ pc \in P_Unbounded
    /\ pc' = "hung"
    /\ UNCHANGED << body, op, status, uuids, unit, results, returned, browser,
                    launches, page, opened, idx, loc, events, ended, resThrows, failed,
                    outcome, shadow, xid, playlistUrl, dom, songData, arg, ret, probe,
                    openPages, scroll, fetchLog,
                    api, sess, chrome >>

(***************************************************************************)
(* Two requests in flight at once. http.createServer runs the handler once *)
(* per request; everything a request works on is a local of that call:     *)
(* `const results = {}` of fetchSongInfoBatch, `let browser`, `let page`,  *)
(* `const uuids` and the locals of the loop in the stream handler. The     *)
(* module has no variable that is assigned after start-up. sess[s] holds   *)
(* the locals of request s; chrome holds what exists outside the process:  *)
(* the browsers that are running and the pages open in them. The steps of  *)
(* an item between newPage and page.close are one step here.               *)
(***************************************************************************)
Sessions == {1, 2}

\* identifiers per request
MaxTwo == 2

TwoInputs == SeqsUpTo(PairIds, MaxTwo) \ {<< >>}

NoSession ==
    [kind |-> "none", uuids |-> << >>, pc |-> "none", results |-> EmptyMap,
     stored |-> {}, events |-> << >>, idx |-> 0, loc |-> NoLoc, browser |-> 0,
     page |-> 0]

NoSessions == [s \in Sessions |-> NoSession]

NoChrome == [launched |-> 0, opened |-> 0, browsers |-> {}, pages |-> {}]

\* the variables of the one-request model
TwoFrame ==
    UNCHANGED << op, status, body, uuids, unit, results, returned, pc, browser,
                 launches, page, opened, idx, loc, events, ended, resThrows, failed,
                 outcome, shadow, xid, playlistUrl, dom, songData, arg, ret, probe,
                 openPages, scroll, fetchLog, api >>

\* the handler of /api/fetch-songs-batch or /api/fetch-artists-stream starts
T_Request(s) ==
    /\ sess[s].kind = "none"
    /\ \E k \in {"batch", "stream"}, us \in TwoInputs :
         sess' = [sess EXCEPT ![s] = [NoSession EXCEPT
                                        !.kind = k, !.uuids = us,
                                        !.pc = IF k = "batch" THEN "units" ELSE "launch"]]
    /\ UNCHANGED chrome
    /\ TwoFrame

\* how the fetch of an identifier may end in the two-request model
TwoOutcomes ==
    {o \in Outcomes : o.kind = "timeout"}
    \cup {o \in Outcomes : o.kind = "ok" /\ o.html.nextData = "clip"}

\* a map callback of request s resumes after its fetchSongInfo and stores
T_BatchStore(s, i) ==
    /\ sess[s].kind = "batch" /\ sess[s].pc = "units"
    /\ i \in DOMAIN sess[s].uuids /\ i \notin sess[s].stored
    /\ \E out \in TwoOutcomes :
         sess' = [sess EXCEPT
                    ![s].results = StoreResult(@, sess[s].uuids[i],
                                               fetchSongInfo(sess[s].uuids[i], out)),
                    ![s].stored = @ \cup {i}]
    /\ UNCHANGED chrome
    /\ TwoFrame

\* `await Promise.all(fetchPromises); return results;` and the 200 answer
T_BatchReturn(s) ==
    /\ sess[s].kind = "batch" /\ sess[s].pc = "units"
    /\ sess[s].stored = DOMAIN sess[s].uuids
    /\ sess' = [sess EXCEPT ![s].pc = "done"]
    /\ UNCHANGED chrome
    /\ TwoFrame

\* a server that keeps one browser in a module variable and reuses it
T_Launch_Shared(s) ==
    /\ sess[s].kind = "stream" /\ sess[s].pc = "launch"
    /\ IF chrome.browsers # {}
       THEN /\ sess' = [sess EXCEPT ![s].browser = CHOOSE b \in chrome.browsers : TRUE,
                                    ![s].idx = 1, ![s].pc = "newPage"]
            /\ UNCHANGED chrome
       ELSE /\ sess' = [sess EXCEPT ![s].browser = chrome.launched + 1,
                                    ![s].idx = 1, ![s].pc = "newPage"]
            /\ chrome' = [chrome EXCEPT !.launched = @ + 1,
                                        !.browsers = @ \cup {chrome.launched + 1}]
    /\ TwoFrame

\* `browser = await puppeteer.launch(...)`: a new browser, or a throw into
\* the outer catch (error event, res.end())
T_Launch(s) ==
    /\ sess[s].kind = "stream" /\ sess[s].pc = "launch"
    /\ \/ /\ sess' = [sess EXCEPT ![s].browser = chrome.launched + 1,
                                    ![s].idx = 1, ![s].pc = "newPage"]
          /\ chrome' = [chrome EXCEPT !.launched = @ + 1,
                                      !.browsers = @ \cup {chrome.launched + 1}]
       \/ /\ sess' = [sess EXCEPT ![s].events = Emit(@, ErrorEvent), ![s].pc = "done"]
          /\ UNCHANGED chrome
    /\ TwoFrame

\* `page = await browser.newPage()`: a page in the browser of this request;
\* it throws when that browser is not running
T_NewPage(s) ==
    /\ sess[s].kind = "stream" /\ sess[s].pc = "newPage"
    /\ IF sess[s].browser \in chrome.browsers
       THEN /\ sess' = [sess EXCEPT ![s].page = chrome.opened + 1, ![s].pc = "work"]
            /\ chrome' = [chrome EXCEPT
                            !.opened = @ + 1,
                            !.pages = @ \cup {[browser |-> sess[s].browser,
                                               id |-> chrome.opened + 1]}]
       ELSE /\ sess' = [sess EXCEPT ![s].pc = "write"]
            /\ UNCHANGED chrome
    /\ TwoFrame

\* setUserAgent, goto, waitForSelector, the sleep and the evaluate of the
\* item: the locals are merged with what the page gave, or a call threw
T_Work(s) ==
    /\ sess[s].kind = "stream" /\ sess[s].pc = "work"
    /\ \E l \in {NoLoc, Merge(NoLoc, [artist |-> H_Link, style |-> S_Rock,
                                        description |-> S_Prompt])} :
         sess' = [sess EXCEPT ![s].loc = l, ![s].pc = "closePage"]
    /\ UNCHANGED chrome
    /\ TwoFrame

\* `finally { if (page) await page.close(); }`
T_ClosePage(s) ==
    /\ sess[s].kind = "stream" /\ sess[s].pc = "closePage"
    /\ chrome' = [chrome EXCEPT
                    !.pages = @ \ {[browser |-> sess[s].browser, id |-> sess[s].page]}]
    /\ sess' = [sess EXCEPT ![s].page = 0, ![s].pc = "write"]
    /\ TwoFrame

\* `res.write(data event)` on the response of this request; after the last
\* identifier the done event and res.end() follow without an await
T_Write(s) ==
    /\ sess[s].kind = "stream" /\ sess[s].pc = "write"
    /\ LET ev == DataEvent(sess[s].uuids[sess[s].idx], sess[s].loc)
       IN  IF sess[s].idx < Len(sess[s].uuids)
           THEN sess' = [sess EXCEPT ![s].events = Emit(@, ev), ![s].idx = @ + 1,
                                     ![s].loc = NoLoc, ![s].pc = "newPage"]
           ELSE sess' = [sess EXCEPT ![s].events = Emit(Emit(@, ev), DoneEvent),
                                     ![s].pc = "close"]
    /\ UNCHANGED chrome
    /\ TwoFrame

\* `finally { if (browser) await browser.close(); }`: the browser of this
\* request stops, and with it the pages open in it
T_Close(s) ==
    /\ sess[s].kind = "stream" /\ sess[s].pc = "close"
    /\ chrome' = [chrome EXCEPT
                    !.browsers = @ \ {sess[s].browser},
                    !.pages = {p \in @ : p.browser # sess[s].browser}]
    /\ sess' = [sess EXCEPT ![s].pc = "done"]
    /\ TwoFrame

NextTwo ==
    \E s \in Sessions :
        \/ T_Request(s)
        \/ \E i \in DOMAIN sess[s].uuids : T_BatchStore(s, i)
        \/ T_BatchReturn(s)
        \/ T_Launch(s)
        \/ T_NewPage(s)
        \/ T_Work(s)
        \/ T_ClosePage(s)
        \/ T_Write(s)
        \/ T_Close(s)

\* the server before any request; rt: whether res.write may raise
Idle(rt) ==
    /\ op = "idle"
    /\ status = 0
    /\ body = "none"
    /\ uuids = << >>
    /\ unit = << >>
    /\ results = EmptyMap
    /\ returned = << >>
    /\ pc = "none"
    /\ browser = "none"
    /\ launches = 0
    /\ page = "none"
    /\ opened = 0
    /\ idx = 0
    /\ loc = NoLoc
    /\ events = << >>
    /\ ended = FALSE
    /\ resThrows = rt
    /\ failed = {}
    /\ outcome = "none"
    /\ shadow = NoShadow
    /\ xid = ""
    /\ playlistUrl = NoUrl
    /\ dom = NoDom
    /\ songData = << >>
    /\ probe = NoProbe
    /\ openPages = 0
    /\ fetchLog = << >>
    /\ api = "none"
    /\ sess = NoSessions
    /\ chrome = NoChrome

Init ==
    /\ Idle(FALSE)
    /\ arg = << >>
    /\ ret = << >>
    /\ scroll = NoScroll

Next ==
    \/ BatchRequest
    \/ \E i \in DOMAIN unit : AwaitFetch(i)
    \/ \E i \in DOMAIN unit : AwaitText(i)
    \/ \E i \in DOMAIN unit : BatchStore(i)
    \/ BatchReturn
    \/ BatchRespond
    \/ SingleRequest
    \/ SingleRespond
    \/ StreamRequest
    \/ S_Launch
    \/ S_NewPage
    \/ S_SetUserAgent
    \/ S_Goto
    \/ S_WaitForSelector
    \/ S_Sleep
    \/ S_Evaluate
    \/ S_ClosePage
    \/ S_WriteData
    \/ S_WriteDone
    \/ S_End
    \/ S_Catch
    \/ S_CatchEnd
    \/ S_Finally
    \/ PlaylistRequest
    \/ P_Launch
    \/ P_NewPage
    \/ P_SetUserAgent
    \/ P_Goto
    \/ P_Sleep1
    \/ P_Scroll
    \/ P_Sleep2
    \/ P_Extract
    \/ P_Finally
    \/ P_Respond
    \/ UserRequest
    \/ U_Api
    \/ U_Json
    \/ U_Launch
    \/ U_NewPage
    \/ U_SetUserAgent
    \/ U_EvaluateOnNewDocument
    \/ U_SetRequestInterception
    \/ U_Goto
    \/ U_Sleep1
    \/ U_WaitForSelector
    \/ U_Sleep2
    \/ U_Scroll
    \/ U_Sleep3
    \/ U_NextData
    \/ U_Debug
    \/ U_Extract
    \/ U_Finally
    \/ U_Respond

Spec == Init /\ [][Next]_vars

\* the same server in front of a response object whose write may raise
InitW ==
    /\ Idle(TRUE)
    /\ arg = << >>
    /\ ret = << >>
    /\ scroll = NoScroll

SpecW == InitW /\ [][Next]_vars

\* two runs of one batch side by side
SpecPair == Init /\ [][NextPair]_vars

SpecOrder == Init /\ [][NextOrder]_vars

SpecTwo == Init /\ [][NextTwo]_vars

\* the two Puppeteer operations of the claim about hung calls, with calls
\* that may never settle; a continuation that can run does run
NextHang ==
    \/ StreamRequest
    \/ S_Launch
    \/ S_NewPage
    \/ S_SetUserAgent
    \/ S_Goto
    \/ S_WaitForSelector
    \/ S_Sleep
    \/ S_Evaluate
    \/ S_ClosePage
    \/ S_WriteData
    \/ S_WriteDone
    \/ S_End
    \/ S_Catch
    \/ S_CatchEnd
    \/ S_Finally
    \/ PlaylistRequest
    \/ P_Launch
    \/ P_NewPage
    \/ P_SetUserAgent
    \/ P_Goto
    \/ P_Sleep1
    \/ P_Scroll
    \/ P_Sleep2
    \/ P_Extract
    \/ P_Finally
    \/ P_Respond
    \/ S_Hang
    \/ P_Hang

SpecHang == Init /\ [][NextHang]_vars /\ WF_vars(NextHang)

\* the scroll script on its own; a registered timer that is due fires
InitScroll ==
    /\ Idle(FALSE)
    /\ arg = << >>
    /\ ret = << >>
    /\ scroll \in {ScrollStart(h) : h \in ScrollHeights}

NextScroll ==
    \/ ScrollTick
    \/ ScrollTimeout

SpecScroll ==
    InitScroll /\ [][NextScroll]_vars /\ WF_vars(ScrollTick) /\ WF_vars(ScrollTimeout)

(***************************************************************************)
(* decodeHtmlEntities and the parsing part of fetchSongInfo called on      *)
(* their own. A text to decode is a sequence of at most MaxTokens pieces:  *)
(* plain text, entities, and the text an entity is left with when its      *)
(* ampersand is written as &amp;.                                          *)
(***************************************************************************)
Chars(str) ==
    CASE str = "x" -> << "x" >>
      [] str = "&amp;" -> << "&", "a", "m", "p", ";" >>
      [] str = "amp;" -> << "a", "m", "p", ";" >>
      [] str = "&quot;" -> << "&", "q", "u", "o", "t", ";" >>
      [] str = "quot;" -> << "q", "u", "o", "t", ";" >>
      [] str = "&lt;" -> << "&", "l", "t", ";" >>
      [] str = "&#39;" -> << "&", "#", "3", "9", ";" >>
      [] str = "#39;" -> << "#", "3", "9", ";" >>
      [] str = "&#x41;" -> << "&", "#", "x", "4", "1", ";" >>
      [] str = "#x41;" -> << "#", "x", "4", "1", ";" >>
      [] str = "#65;" -> << "#", "6", "5", ";" >>
      [] str = "#65601;" -> << "#", "6", "5", "6", "0", "1", ";" >>
      [] str = "#x10041;" -> << "#", "x", "1", "0", "0", "4", "1", ";" >>
      [] str = "&#65;" -> << "&", "#", "6", "5", ";" >>
      [] str = "&#65601;" -> << "&", "#", "6", "5", "6", "0", "1", ";" >>
      [] str = "&#x10041;" -> << "&", "#", "x", "1", "0", "0", "4", "1", ";" >>

Tokens ==
    { "x", "&amp;", "amp;", "&quot;", "quot;", "&lt;", "&#39;", "#39;", "&#x41;",
      "#x41;", "#65;", "#65601;", "#x10041;", "&#65;", "&#65601;", "&#x10041;" }

RECURSIVE Flatten(_)
Flatten(ts) == IF ts = << >> THEN << >> ELSE Chars(Head(ts)) \o Flatten(Tail(ts))

DecodeInputs == {Flatten(ts) : ts \in SeqsUpTo(Tokens, MaxTokens)}

InitDecode ==
    /\ Idle(FALSE)
    /\ arg \in DecodeInputs
    /\ ret = << >>
    /\ scroll = NoScroll

\* decodeHtmlEntities(arg), then decodeHtmlEntities of what it returned
CallDecode ==
    /\ Len(ret) < 2
    /\ ret' = Append(ret, decodeHtmlEntities(IF ret = << >> THEN arg ELSE ret[Len(ret)]))
    /\ UNCHANGED << op, status, body, uuids, unit, results, returned, pc, browser,
                    launches, page, opened, idx, loc, events, ended, resThrows, failed,
                    outcome, shadow, xid, playlistUrl, dom, songData, arg,
                    probe, openPages, scroll, fetchLog,
                    api, sess, chrome >>

SpecDecode == InitDecode /\ [][CallDecode]_vars

InitParse ==
    /\ Idle(FALSE)
    /\ arg \in PageInputs
    /\ ret = << >>
    /\ scroll = NoScroll

\* fetchSongInfo on a response whose body is arg
CallParse ==
    /\ ret = << >>
    /\ ret' = << ParseSongInfo(arg) >>
    /\ UNCHANGED << op, status, body, uuids, unit, results, returned, pc, browser,
                    launches, page, opened, idx, loc, events, ended, resThrows, failed,
                    outcome, shadow, xid, playlistUrl, dom, songData, arg,
                    probe, openPages, scroll, fetchLog,
                    api, sess, chrome >>

SpecParse == InitParse /\ [][CallParse]_vars

(***************************************************************************)
(* Properties.                                                             *)
(***************************************************************************)
DataIdx(evs) == {i \in DOMAIN evs : evs[i].type = "data"}
TerminalIdx(evs) == {i \in DOMAIN evs : evs[i].type \in {"done", "error"}}
Occurrences(us, x) == {i \in DOMAIN us : us[i] = x}
IsFallback(i) == unit[i].info.value = SongInfoDefault(uuids[i])
StreamOver == op = "stream" /\ pc = "terminated" /\ status = 200
InIteration ==
    op = "stream"
    /\ pc \in {"newPage", "setUA", "goto", "waitSel", "sleep", "evaluate",
               "closePage", "write"}

\* C1: the mapping fetchSongInfoBatch returns has exactly the distinct input
\* identifiers as its keys, whatever the fetches did and in whatever order
\* the callbacks resumed.
C1_BatchKeysExact ==
    returned # << >> => DOMAIN returned[1] = Range(uuids)

\* C1 witness: a batch over two distinct identifiers returned, one fetch
\* failed and one page was parsed.
C1_Witness ==
    /\ op = "batch" /\ returned # << >>
    /\ Cardinality(Range(uuids)) = 2
    /\ \E i, j \in DOMAIN unit :
         IsFallback(i) /\ unit[j].info.value.title # << >>

\* C2 (as claimed): once the browser was launched, a finished stream holds one
\* data event per input identifier, in input order, then one done event.
C2_StreamComplete ==
    (StreamOver /\ launches = 1) =>
        /\ Len(events) = Len(uuids) + 1
        /\ \A i \in DOMAIN uuids :
             events[i].type = "data" /\ events[i].uuid = uuids[i]
        /\ events[Len(events)] = DoneEvent

\* C3 (as claimed): the coverUrl of a record fetchSongInfo returns, and of
\* every entry of the batch mapping, is never null.
C3_CoverUrlNeverNull ==
    /\ \A i \in DOMAIN unit :
         unit[i].pc \in {"settled", "done"} => unit[i].info.value.coverUrl # NullUrl
    /\ \A k \in DOMAIN results : results[k].coverUrl # NullUrl

\* C4: in two runs of one batch that differ only in how the fetch of xid
\* ended, every other key has the same entry (or is absent in both) at every
\* moment, and both runs return all the entries.
C4_SiblingsUnaffected ==
    op = "pair" =>
        /\ \A y \in Ids \ {xid} :
             /\ y \in DOMAIN results <=> y \in DOMAIN shadow.results
             /\ y \in DOMAIN results => results[y] = shadow.results[y]
        /\ returned # << >> =>
             /\ DOMAIN returned[1] = Range(uuids)
             /\ shadow.returned # << >>
             /\ DOMAIN shadow.returned[1] = Range(uuids)

\* C4 witness: both runs returned, the fetch of xid failed in one run and
\* not in the other, and another identifier has an entry.
C4_Witness ==
    /\ op = "pair" /\ returned # << >>
    /\ results[xid] = SongInfoDefault(xid)
    /\ shadow.results[xid] # SongInfoDefault(xid)
    /\ \E y \in DOMAIN results : y # xid

\* C5: fetchSongInfo never rejects, and a request whose body holds a uuids
\* array is never answered with an error status: it is answered 200 with the
\* mapping.
C5_BatchNeverFails ==
    op = "batch" =>
        /\ \A i \in DOMAIN unit : unit[i].info.settled = "resolved"
        /\ body = "ok" => status \in {0, 200}
        /\ (body = "ok" /\ AllDone(unit) /\ returned # << >>) =>
             DOMAIN returned[1] = Range(uuids)
        /\ status = 200 => body = "ok" /\ returned # << >>

\* C5 witness: every fetch of a two-identifier batch failed and the request
\* was answered 200.
C5_Witness ==
    /\ op = "batch" /\ status = 200 /\ Len(uuids) = 2
    /\ \A i \in DOMAIN unit : IsFallback(i)

\* C6: when fetchPlaylistSongs, the stream function or fetchUserPlaylists has
\* ended, however it ended, the browser it launched is not open.
C6_BrowserReleased ==
    pc \in {"terminated", "p_respond", "u_respond"} => browser # "open"

\* C6 witness: a stream whose write to the response threw has ended with its
\* browser closed.
C6_Witness ==
    /\ op = "stream" /\ pc = "terminated" /\ outcome = "threw"
    /\ launches = 1 /\ browser = "closed"

\* C7 (as claimed): in a finished stream every identifier whose processing
\* threw has the default-valued data event, and it and all later identifiers
\* have their data events.
C7_FailureIsDefaultEvent ==
    (StreamOver /\ launches = 1) =>
        \A i \in failed :
            /\ i <= Len(events) /\ events[i] = DataEvent(uuids[i], NoLoc)
            /\ \A j \in i..Len(uuids) : j <= Len(events) /\ events[j].type = "data"

\* C8 (as claimed): no identifier is carried by two data events of a stream.
C8_AtMostOnePerIdentifier ==
    \A i, j \in DataIdx(events) : i # j => events[i].uuid # events[j].uuid

\* C8 (amended): the stream writes at most one data event per position of the
\* input: an identifier is carried by no more data events than it has
\* occurrences in the input.
C8_AtMostOnePerPosition ==
    op = "stream" =>
        \A x \in Ids :
            Cardinality({i \in DataIdx(events) : events[i].uuid = x})
                <= Cardinality(Occurrences(uuids, x))

\* C8 witness: the input names one identifier twice and both data events
\* were written.
C8_Witness ==
    /\ StreamOver
    /\ \E x \in Ids :
         /\ Cardinality(Occurrences(uuids, x)) = 2
         /\ Cardinality({i \in DataIdx(events) : events[i].uuid = x}) = 2

\* C9: a stream holds at most one terminal event (done or error), nothing is
\* written after it, a finished stream holds exactly one, and a stream whose
\* browser could not be launched consists of the error event alone.
C9_OneTerminalEvent ==
    op = "stream" =>
        /\ Cardinality(TerminalIdx(events)) <= 1
        /\ \A i \in TerminalIdx(events) : i = Len(events)
        /\ StreamOver => Cardinality(TerminalIdx(events)) = 1 /\ ended
        /\ (StreamOver /\ launches = 0) => events = << ErrorEvent >>

\* C9 witness: the launch failed and the stream has ended.
C9_Witness ==
    StreamOver /\ launches = 0 /\ events = << ErrorEvent >>

\* C10: while the stream works on the identifier at position idx (from
\* opening its page to writing its event), the data events of all earlier
\* positions are already on the response, one per position, in input order.
C10_DeliveredBeforeNext ==
    InIteration =>
        /\ Len(events) = idx - 1
        /\ \A j \in 1..(idx - 1) :
             events[j].type = "data" /\ events[j].uuid = uuids[j]

\* C10 witness: the page of the second identifier is navigating and the
\* first result, with an extracted artist, is on the response.
C10_Witness ==
    /\ op = "stream" /\ pc = "goto" /\ idx = 2
    /\ Len(events) = 1 /\ events[1].artist = H_Link

(***************************************************************************)
(* Playlist enumeration.                                                   *)
(***************************************************************************)
IdChars == HexDigits \cup {"-"}

\* the request carried a url parameter
HasUrl == op = "playlist" /\ playlistUrl # NoUrl

\* url holds "suno.com/playlist/" followed by at least one identifier character
PlaylistShaped(url) ==
    url.prefix /\ url.rest # << >> /\ url.rest[1] \in IdChars

\* the identifier part of url is one token of the shape 8-4-4-4-12
CanonicalId(url) ==
    /\ url.prefix
    /\ UuidAtStart(url.rest)
    /\ Len(url.rest) > 36 => url.rest[37] \notin IdChars

\* C11: fetchPlaylistSongs called with a string that does not match the
\* playlist URL pattern throws 'Invalid playlist URL' before any I/O: no
\* browser is launched, no page is opened, no navigation is attempted, and
\* the handler answers with the error.
C11_InvalidUrlNoIO ==
    HasUrl /\ ~PlaylistShaped(playlistUrl) =>
        /\ outcome = "threw"
        /\ launches = 0 /\ browser = "none"
        /\ opened = 0 /\ page = "none"
        /\ pc \in {"p_respond", "terminated"}
        /\ pc = "terminated" => status = 500

\* C11 witness: a request whose url lacks the playlist path was answered.
C11_Witness ==
    /\ HasUrl /\ ~playlistUrl.prefix /\ playlistUrl.rest = Uuid("c")
    /\ pc = "terminated" /\ status = 500

\* C12 (as claimed): a browser is launched only for a playlist URL whose
\* identifier is a canonical 36-character token in 8-4-4-4-12 groups; any
\* other identifier part is rejected as an invalid reference.
C12_OnlyCanonicalAccepted ==
    HasUrl /\ ~CanonicalId(playlistUrl) => launches = 0 /\ outcome = "threw"

\* the identifiers of the members returned, in order
Members == [i \in DOMAIN songData[1].songs |-> songData[1].songs[i].uuid]

\* the lower-cased identifiers of the member anchors of the document, in order
AnchorTokens ==
    LET hit == SelectSeq(dom.anchors, LAMBDA a : SongHrefMatch(a.href) # << >>)
    IN  [i \in DOMAIN hit |-> LowerStr(SongHrefMatch(hit[i].href))]

\* the lower-cased identifier-shaped matches of the body scan, in order
BodyTokens ==
    LET all == MatchAllUuids(dom.body)
    IN  [i \in DOMAIN all |-> LowerStr(all[i])]

\* anchor-based discovery found no member
NoAnchorMember == Range(AnchorTokens) \subseteq {songData[1].playlistId}

\* where the members were discovered
Discovered == IF NoAnchorMember THEN BodyTokens ELSE AnchorTokens

FirstPos(list, x) == CHOOSE i \in DOMAIN list : list[i] = x /\ \A j \in 1..(i - 1) : list[j] # x

\* C13: the member list fetchPlaylistSongs returns has no duplicates (case
\* variants of one token collapse to one entry), every member is lowercase,
\* the members are in discovery order, and the playlist's own identifier is
\* not a member.
C13_MembersDistinctLowercase ==
    songData # << >> =>
        /\ \A i, j \in DOMAIN Members : i # j => Members[i] # Members[j]
        /\ \A i \in DOMAIN Members : LowerStr(Members[i]) = Members[i]
        /\ songData[1].playlistId \notin Range(Members)
        /\ Range(Members) = Range(Discovered) \ {songData[1].playlistId}
        /\ \A i, j \in DOMAIN Members :
             i < j => FirstPos(Discovered, Members[i]) < FirstPos(Discovered, Members[j])

\* C13 witness: the anchors held an uppercase and a lowercase variant of one
\* token and the playlist's own identifier; two members were returned.
C13_Witness ==
    /\ songData # << >>
    /\ {Uuid("a"), Uuid("b"), songData[1].playlistId} \subseteq Range(AnchorTokens)
    /\ Len(AnchorTokens) > Cardinality(Range(AnchorTokens))
    /\ Members = << Uuid("a"), Uuid("b") >>

C14_KeysLowercase ==
    /\ returned # << >> => \A k \in DOMAIN returned[1] : toLowerCase(k) = k
    /\ \A i \in DataIdx(events) : toLowerCase(events[i].uuid) = events[i].uuid

(***************************************************************************)
(* Entity decoding and static extraction.                                  *)
(***************************************************************************)
\* the character whose code is n
CharOfCode(n) ==
    CASE n = 34 -> "\""
      [] n = 38 -> "&"
      [] n = 39 -> "'"
      [] n = 60 -> "<"
      [] n = 62 -> ">"
      [] n = 65 -> "A"
      [] OTHER -> "u" \o ToString(n)

AmpEscaped(rest) == << "&", "a", "m", "p", ";" >> \o rest

\* str holds an entity the decoder resolves
HasEntity(str) == decodeHtmlEntities(str) # str

\* C16 (as claimed): decoding is idempotent; decoding what a first call
\* returned gives the same text again.
C16_DecodeIdempotent ==
    Len(ret) = 2 => ret[2] = ret[1]

\* C17 (as claimed): one call resolves an ampersand-escaped numeric entity,
\* decimal or hexadecimal, to the one character that has that code.
C17_AmpEscapedNumericResolved ==
    ret # << >> =>
        /\ arg = AmpEscaped(Chars("#39;")) => ret[1] = << CharOfCode(39) >>
        /\ arg = AmpEscaped(Chars("#65;")) => ret[1] = << CharOfCode(65) >>
        /\ arg = AmpEscaped(Chars("#x41;")) => ret[1] = << CharOfCode(65) >>
        /\ arg = AmpEscaped(Chars("#65601;")) => ret[1] = << CharOfCode(65601) >>
        /\ arg = AmpEscaped(Chars("#x10041;")) => ret[1] = << CharOfCode(65601) >>

TextFields == {"title", "artist", "style", "description"}

\* the first non-empty text of a list, the sentinel when all are empty
RECURSIVE FirstNonEmpty(_, _)
FirstNonEmpty(list, sentinel) ==
    IF list = << >> THEN sentinel
    ELSE IF Head(list) # << >> THEN Head(list)
    ELSE FirstNonEmpty(Tail(list), sentinel)

\* the handle of the leftmost "by @handle" (the @ required) in str, << >> if none
RECURSIVE ByAtHandle(_)
ByAtHandle(str) ==
    IF Len(str) < 5 THEN << >>
    ELSE LET w == RunLen(SubSeq(str, 3, Len(str)), {" ", "\t", "\n"})
             r == SubSeq(str, 3 + w, Len(str))
         IN  IF /\ LowerStr(SubSeq(str, 1, 2)) = << "b", "y" >>
                /\ w > 0 /\ Len(r) >= 2 /\ r[1] = "@" /\ r[2] \in WordChars
             THEN SubSeq(Tail(r), 1, RunLen(Tail(r), WordChars))
             ELSE ByAtHandle(Tail(str))

\* C18 (as claimed): no text field of the record static extraction returns
\* holds an entity left undecoded.
C18_NoRawEntities ==
    ret # << >> => \A f \in TextFields : ~HasEntity(ret[1][f])

\* C19 (as claimed): the artist is the first non-empty of: the handle of a
\* "by @handle" phrase of og:description, the profile link, a "by @handle"
\* phrase anywhere, twitter:creator; 'Suno AI' when all four miss.
C19_ArtistChainAtRequired ==
    ret # << >> =>
        ret[1].artist = FirstNonEmpty(<< ByAtHandle(arg.ogDesc), arg.atHref,
                                         arg.byAny, arg.twitter >>, SunoAI)

\* C19 (amended): as above, but the first heuristic is a "by handle" phrase
\* of og:description whose @ is optional.
C19_ArtistChain ==
    ret # << >> =>
        ret[1].artist = FirstNonEmpty(<< MatchBy(arg.ogDesc), arg.atHref,
                                         arg.byAny, arg.twitter >>, SunoAI)

\* C19 witness: og:description "A song by @cool" gave the artist "cool"
\* although a profile link and a twitter:creator tag were there as well.
C19_Witness ==
    /\ ret # << >>
    /\ arg.ogDesc = D_By /\ arg.atHref # << >> /\ arg.twitter # << >>
    /\ ret[1].artist = << "c", "o", "o", "l" >>

\* C20 (as claimed): the title is the title of the structured-data block
\* when the block parses and has one, otherwise og:title without its
\* " | Suno" suffix, otherwise empty.
C20_TitleFromStructuredData ==
    ret # << >> =>
        ret[1].title =
            IF arg.nextData = "clip" /\ arg.clipTitle # << >> THEN arg.clipTitle
            ELSE IF arg.ogTitle = T_Midnight THEN << "M", "i", "d" >>
            ELSE IF arg.ogTitle = T_Amp THEN << "A", "&", "B" >>
            ELSE << >>

(***************************************************************************)
(* Records, the shared mapping, and the rendering session.                 *)
(***************************************************************************)
\* C21 (as claimed): every record batch-fetch returns has a non-empty
\* artist, also the default record of an identifier whose fetch failed.
C21_ArtistNeverEmpty ==
    returned # << >> => \A k \in DOMAIN returned[1] : returned[1][k].artist # << >>

\* C22 (as claimed): no two units of one batch write the same key of the
\* shared results object, also when the input holds an identifier twice.
C22_NoTwoWritersPerKey ==
    op = "batch" =>
        \A i, j \in DOMAIN unit :
            i # j /\ unit[i].pc = "done" /\ unit[j].pc = "done" => uuids[i] # uuids[j]

\* C23: a stream-fetch launches the browser once: never more than one launch,
\* every iteration of the loop runs on that one browser, and nothing is
\* written without it but the error event of a failed launch.
C23_OneLaunch ==
    op = "stream" =>
        /\ launches <= 1
        /\ idx >= 1 => launches = 1
        /\ launches = 0 => DataIdx(events) = {}

\* C23 witness: a stream over two identifiers ended, an item failed on the
\* way, and the browser was launched once.
C23_Witness ==
    /\ StreamOver /\ Len(uuids) >= 2 /\ failed # {}
    /\ Cardinality(DataIdx(events)) = Len(uuids)
    /\ launches = 1

\* C24 (as claimed): a stream-fetch or enumerate-playlist that has opened its
\* browser eventually terminates with the browser closed, also when a page
\* open, a script evaluation or a page close never returns.
C24_EventuallyTornDown ==
    (op \in {"stream", "playlist"} /\ browser = "open")
        ~> (browser = "closed" /\ pc = "terminated")

BlockWithoutMetadata ==
    \/ arg.nextData \in {"unparseable", "noclip"}
    \/ arg.nextData = "clip" /\ arg.tags = << >> /\ arg.prompt = << >>

\* the page of arg without its structured-data block
WithoutBlock == [arg EXCEPT !.nextData = "absent", !.clipTitle = << >>,
                            !.tags = << >>, !.prompt = << >>]

\* C26: when the structured-data block is present but unparseable, or lacks
\* the clip or its metadata, static extraction returns style and description
\* empty and title, artist and cover as the meta tags alone give them; the
\* record is not the whole-record default.
C26_MalformedBlockTolerated ==
    ret # << >> /\ BlockWithoutMetadata =>
        /\ ret[1].style = << >> /\ ret[1].description = << >>
        /\ ret[1].title = IF arg.ogTitle # << >>
                          THEN decodeHtmlEntities(trim(StripSunoSuffix(arg.ogTitle)))
                          ELSE << >>
        /\ ret[1].coverUrl = IF arg.ogImage # "" THEN OgUrl(arg.ogImage) ELSE NullUrl
        /\ ret[1].artist = FirstNonEmpty(<< MatchBy(arg.ogDesc), arg.atHref,
                                            arg.byAny, arg.twitter >>, SunoAI)
        /\ \A u \in Ids \cup {""} : ret[1] # SongInfoDefault(u)

\* C26 witness: an unparseable block on a page with og:title, og:image and a
\* profile link; title, cover and artist came from those.
C26_Witness ==
    /\ ret # << >> /\ arg.nextData = "unparseable"
    /\ arg.ogTitle = T_Midnight /\ arg.ogImage = "img" /\ arg.ogDesc = << >>
    /\ arg.atHref = H_Link
    /\ ret[1].title = << "M", "i", "d" >>
    /\ ret[1].artist = H_Link
    /\ ret[1].coverUrl = OgUrl("img")
    /\ ret[1].style = << >>

\* the position of the item the probe is about
ProbedIdx == IF pc = "newPage" THEN idx - 1 ELSE idx

\* C27: when the readiness wait of an item times out, the handler goes on to
\* the sleep and the evaluate without marking the item failed and without
\* entering a catch block; if the evaluate then finds no profile link, the
\* data event of the item carries artist 'Suno AI', otherwise the artist found.
C27_WaitTimeoutTolerated ==
    op = "stream" /\ probe.wait = "timeout" =>
        /\ probe.anchor = "none" => pc \in {"sleep", "evaluate"} /\ idx \notin failed
        /\ probe.anchor \in {"absent", "present"} /\ pc = "closePage" => idx \notin failed
        /\ probe.anchor \in {"absent", "present"} /\ pc \in {"newPage", "writeDone"} =>
              /\ events # << >>
              /\ events[Len(events)].type = "data"
              /\ events[Len(events)].uuid = uuids[ProbedIdx]
              /\ (events[Len(events)].artist = SunoAI) <=> (probe.anchor = "absent")

\* C27 witness: the wait of the second item timed out, the evaluate found no
\* profile link, and the data event of the item was written with 'Suno AI'.
C27_Witness ==
    /\ op = "stream" /\ pc = "writeDone" /\ idx = 2
    /\ probe = [wait |-> "timeout", anchor |-> "absent"]
    /\ 2 \notin failed
    /\ events[Len(events)] = DataEvent(uuids[2], NoLoc)

\* C28: the scroll loop ends: the promise is resolved eventually, and only
\* when the scrolled distance has reached the document height or the 10 s
\* timeout has fired; once it is resolved the interval is cleared and no
\* further scroll step is performed.
C28_ScrollTerminates ==
    /\ <>(scroll.resolved)
    /\ [](scroll.resolved =>
            /\ scroll.timer = "cleared"
            /\ scroll.totalHeight >= scroll.scrollHeight \/ scroll.timeout = "fired")
    /\ [][scroll.resolved => scroll'.totalHeight = scroll.totalHeight
                              /\ scroll'.ticks = scroll.ticks]_vars

\* C28 witness: the document grew on every tick, every tick the ceiling
\* allows was performed, the extent was never reached, and the timeout ended
\* the loop.
C28_Witness ==
    /\ scroll.resolved /\ scroll.timeout = "fired" /\ scroll.grewAll
    /\ scroll.ticks * ScrollInterval = ScrollCeiling
    /\ scroll.totalHeight < scroll.scrollHeight

\* C29 (as claimed): in a stream-fetch session at most one page is open,
\* no page is open when the next one is opened, and no page is open when the
\* browser is about to be closed.
C29_PagesClosedBeforeBrowser ==
    op = "stream" =>
        /\ openPages <= 1
        /\ pc = "newPage" => openPages = 0
        /\ pc = "finally" /\ browser = "open" => openPages = 0

\* C29 (amended): at most one page is open, no page is open when the next
\* one is opened, and a page is still open when the browser is about to be
\* closed only if its own page.close() threw (the item is marked failed and
\* has no data event); no page is open once the browser is closed.
C29_OnePageAtATime ==
    op = "stream" =>
        /\ openPages <= 1
        /\ pc = "newPage" => openPages = 0
        /\ pc \in {"catch", "catchEnd", "finally"} /\ openPages = 1 =>
              /\ idx \in failed
              /\ Cardinality(DataIdx(events)) = idx - 1
        /\ pc \in {"write", "writeDone", "end"} => openPages = 0
        /\ browser = "closed" => openPages = 0

\* C29 witness: the page of the second identifier is open, the page of the
\* first one was opened and closed before.
C29_Witness ==
    /\ op = "stream" /\ pc = "setUA" /\ idx = 2
    /\ opened = 2 /\ openPages = 1 /\ 1 \notin failed

\* the identifiers found by the body scan only
BodyOnly == Range(BodyTokens) \ (Range(AnchorTokens) \cup {songData[1].playlistId})

\* C30: when at least one anchor yields a member, every member comes from an
\* anchor and no identifier that occurs in the body only is a member; when
\* no anchor yields a member, the members are those of the body scan.
C30_ScanOnlyWithoutAnchorMember ==
    songData # << >> =>
        /\ ~NoAnchorMember =>
              /\ Range(Members) \subseteq Range(AnchorTokens)
              /\ Range(Members) \cap BodyOnly = {}
              /\ Len(Members) >= 1
        /\ NoAnchorMember =>
              /\ Range(Members) \subseteq Range(BodyTokens)
              /\ BodyOnly \subseteq Range(Members)

\* C30 witness: the anchors gave two members and the body held a third
\* identifier that no anchor had; two members were returned.
C30_Witness ==
    /\ songData # << >> /\ ~NoAnchorMember
    /\ BodyOnly # {}
    /\ Len(Members) = 2

\* C31: when a step of enumerate-playlist after the launch fails (the
\* navigation exceeding its deadline included), the handler answers 500 with
\* an error payload and no playlist record, and the browser that was launched
\* is closed before the answer; 200 is answered only with the record the
\* extraction returned.
C31_PlaylistFailureIsError ==
    op = "playlist" =>
        /\ outcome = "threw" => songData = << >> /\ status \in {0, 500}
        /\ status = 500 =>
              /\ outcome = "threw"
              /\ browser # "open"
              /\ launches > 0 => browser = "closed"
        /\ status = 200 => outcome = "returned" /\ songData # << >>
        /\ pc = "terminated" => status \in {200, 400, 500}

\* C31 witness: the browser was launched and a page opened, a later step
\* threw before the extraction returned, the browser is closed and the
\* answer is 500.
C31_Witness ==
    /\ op = "playlist" /\ status = 500
    /\ launches = 1 /\ opened = 1 /\ browser = "closed"
    /\ songData = << >>

\* C32: a unit whose fetch ended with a non-2xx status or with the 8 s
\* timeout made exactly one fetch call, never awaits the response body, and
\* settles to the default record of its own identifier (empty title, style
\* and description, cover URL built from that identifier); no unit makes a
\* second fetch call.
C32_FailedFetchIsDefault ==
    op \in {"batch", "single"} /\ unit # << >> =>
        \A i \in DOMAIN unit :
            /\ Len(fetchLog[i]) <= 1
            /\ unit[i].pc = "fetch" <=> fetchLog[i] = << >>
            /\ unit[i].pc = "text" => fetchLog[i] = << "ok" >>
            /\ fetchLog[i] # << >> /\ fetchLog[i][1] \in {"http", "timeout"} =>
                  /\ unit[i].pc \in {"settled", "done"}
                  /\ unit[i].info = Resolved(SongInfoDefault(uuids[i]))
                  /\ unit[i].info.value.title = << >>
                  /\ unit[i].info.value.style = << >>
                  /\ unit[i].info.value.description = << >>
                  /\ unit[i].info.value.coverUrl = CdnUrl(uuids[i])

\* C32 witness: the fetch of "AA" timed out and the fetch of "bb" answered
\* non-2xx; both units settled to the default record of their identifier.
C32_Witness ==
    /\ op = "batch" /\ uuids = << "AA", "bb" >>
    /\ fetchLog = << << "timeout" >>, << "http" >> >>
    /\ unit[1].info.value.coverUrl = CdnUrl("AA")
    /\ unit[2].info.value.coverUrl = CdnUrl("bb")
    /\ unit[1].pc = "settled" /\ unit[2].pc = "done"

\* the request came without the parameter its endpoint requires
MissingParam ==
    \/ op = "single" /\ uuids = << >>
    \/ op = "batch" /\ body \in {"empty", "nouuids"}
    \/ op = "stream" /\ uuids = << >>
    \/ op = "playlist" /\ playlistUrl = NoUrl
    \/ op = "user" /\ pc = "terminated" /\ outcome = "none"

\* C33 (as claimed): a request without its required parameter is answered
\* 400 and does no extraction work: no browser launch, no static fetch, no
\* event written.
C33_MissingParamIs400 ==
    MissingParam =>
        /\ status = 400
        /\ launches = 0 /\ browser = "none"
        /\ unit = << >> /\ fetchLog = << >>
        /\ events = << >> /\ ~ended

\* the data events written so far, in the order they were written
DataEvents == SelectSeq(events, LAMBDA e : e.type = "data")

\* C34: at every moment of a stream-fetch the identifiers of the data events
\* written so far are the first identifiers of the input, in input order;
\* also when the stream ends with an error event.
C34_DataEventsPrefix ==
    op = "stream" =>
        /\ Len(DataEvents) <= Len(uuids)
        /\ \A i \in DOMAIN DataEvents : DataEvents[i].uuid = uuids[i]

\* C34 witness: of three identifiers the first failed and still got its data
\* event, the second was written, the third ended in the error event; the
\* stream is over.
C34_Witness ==
    /\ op = "stream" /\ ended /\ Len(uuids) = 3
    /\ 1 \in failed
    /\ Len(events) = 3
    /\ events[1].type = "data" /\ events[1].uuid = uuids[1]
    /\ events[2].type = "data" /\ events[2].uuid = uuids[2]
    /\ events[3] = ErrorEvent

\* C35 (as claimed): two runs of batch-fetch on the same input whose
\* requests end the same way, and which differ only in the order their
\* units complete, return equal mappings; also when the input holds one
\* identifier twice and its two fetches end differently.
C35_OrderIndependent ==
    op = "order" /\ returned # << >> => returned = shadow.returned

\* the page request s holds, as the browser knows it
OwnPage(s) == [browser |-> sess[s].browser, id |-> sess[s].page]

\* C36: with two batch or stream requests in flight at once, the mapping
\* and the event stream of a request hold only identifiers of that request
\* (the data events are a prefix of its input), every stream request has a
\* browser of its own which runs until that request closes it, and a page a
\* request holds stays open until that request closes it, whatever the
\* other request does.
C36_NoSharedState ==
    \A s \in Sessions :
        /\ DOMAIN sess[s].results = {sess[s].uuids[i] : i \in sess[s].stored}
        /\ LET d == SelectSeq(sess[s].events, LAMBDA e : e.type = "data")
           IN  /\ Len(d) <= Len(sess[s].uuids)
               /\ \A i \in DOMAIN d : d[i].uuid = sess[s].uuids[i]
        /\ sess[s].kind = "batch" => sess[s].browser = 0 /\ sess[s].events = << >>
        /\ sess[s].kind = "stream" => sess[s].results = EmptyMap
        /\ sess[s].browser # 0 =>
              \A t \in Sessions \ {s} : sess[t].browser # sess[s].browser
        /\ sess[s].pc \in {"newPage", "work", "closePage", "write", "close"} =>
              sess[s].browser \in chrome.browsers
        /\ sess[s].pc = "done" => sess[s].browser \notin chrome.browsers
        /\ sess[s].page # 0 => OwnPage(s) \in chrome.pages
        /\ chrome.launched = Cardinality({t \in Sessions : sess[t].browser # 0})

\* C36 witness: two stream requests overlapped; the first has closed its
\* browser and ended, the second still holds an open page in its own
\* browser, and a data event of each was written to its own response.
C36_Witness ==
    /\ sess[1].kind = "stream" /\ sess[2].kind = "stream"
    /\ sess[1].pc = "done" /\ sess[1].browser = 1
    /\ sess[2].pc = "closePage" /\ sess[2].browser = 2 /\ sess[2].idx = 2
    /\ OwnPage(2) \in chrome.pages
    /\ sess[1].uuids = << "aa" >> /\ sess[2].uuids = << "bb", "aa" >>
    /\ Len(sess[1].events) = 2 /\ Len(sess[2].events) = 1

\* the API attempt gave a non-empty array
ApiGaveArray == api \in {"array", "arrayNoIds", "arrayNull"}

\* C37 (as claimed): fetchUserPlaylists launches no browser when the
\* profile API answered with a non-empty array (also when no entry has an
\* id), and goes to the browser fallback when the API failed, answered
\* non-2xx or gave no non-empty array; it launches at most one browser and
\* no browser is open once it has ended.
C37_BrowserOnlyWithoutApiArray ==
    op = "user" =>
        /\ ApiGaveArray => launches = 0 /\ browser = "none" /\ pc \in {"u_respond", "terminated"}
        /\ api \in {"neterr", "non2xx", "jsonerr", "noarray", "emptyarray"} =>
              pc \notin {"u_api", "u_json"}
        /\ launches <= 1
        /\ launches = 1 => api \notin {"none", "ok"}
        /\ pc \in {"u_respond", "terminated"} => browser # "open"

\* the text "&" followed by rest
Entity(rest) == << "&" >> \o Chars(rest)

\* C38 (as claimed): a numeric entity, decimal or hexadecimal, decodes to
\* the one character whose code is its number, for codes of 65536 and above
\* as for smaller ones.
C38_NumericEntityAnyCode ==
    ret # << >> =>
        /\ arg = Entity("#65;") => ret[1] = << CharOfCode(65) >>
        /\ arg = Entity("#x41;") => ret[1] = << CharOfCode(65) >>
        /\ arg = Entity("#65601;") => ret[1] = << CharOfCode(65601) >>
        /\ arg = Entity("#x10041;") => ret[1] = << CharOfCode(65601) >>

====
